---- MODULE Spec2Model ----
(***************************************************************************)
(* Model of the process pipeline engine of gnob                            *)
(* (internal/gnoblib/exec.go): option sets, stage construction, chain      *)
(* linking (direct OS pipe or tee), and the lifecycle operations Start,    *)
(* Wait, Run, ExitCode and ExitCodes.                                      *)
(*                                                                         *)
(* A chain is a list of Exec handles linked by prev.  Handle k of the      *)
(* model is the k-th handle built (1 = head); prev[k] = k - 1.  The        *)
(* processes, OS pipes and the goroutines of os/exec are modelled at byte  *)
(* granularity.  Every process runs the program of internal/gnobtest/cmd:  *)
(* it writes its own bytes, then copies its stdin to its output, then      *)
(* exits; it writes every byte to both stdout and stderr.  A process may   *)
(* also exit before it is done.                                            *)
(***************************************************************************)
EXTENDS Integers, Sequences, FiniteSets, TLC

\* ------------------------------------------------------------------ bounds
MaxStages == 2      \* longest chain built under a context that can be cancelled
LongStages == 3     \* longest chain built under a context that cannot
OutLen == 2         \* bytes the head's process writes on its own
LongOut == 3        \* the same in the runs under fair scheduling
TokLen == 1         \* bytes every other process writes on its own
PipeCap == 1        \* bytes an OS pipe buffers before a write blocks
MaxWaits == 2       \* calls of Wait a caller makes on one handle

Stages == 1..LongStages
\* the bytes in the reader a caller passes to WithStdin
ReaderData == << 99 >>
Streams == {"out", "err"}

\* The exit code a handle reports before any Wait completed (exec.go:307).
NoExitCode == -1
\* os/exec: ExitError.ExitCode() of a process terminated by a signal.
SignalCode == -1
\* exit statuses a process chooses from when it exits by itself
ExitStatuses == {0, 1}

\* -------------------------------------------------------------- option set
\* cmdOptions (exec.go:94-102).
\* A writer is "nil" (unset), "buf" (a bytes.Buffer of the caller), "file"
\* (a destination that is also an io.Closer) or "json1"/"json2" (the
\* internal buffer of a JSON decoder option).  A reader is "nil" or "rdr",
\* a reader of the caller that holds ReaderData.
\* A text is a sequence of characters, so that "KEY=VALUE" is made and taken
\* apart character by character.  envVars is a map from keys to values (the
\* nil map and the empty map are both the function of empty domain);
\* workingDir is "" when unset.
EmptyMap == [k \in {} |-> <<>>]

ZeroOptions ==
    [stdout |-> "nil", stderr |-> "nil", stdin |-> "nil", onExit |-> <<>>,
     envVars |-> EmptyMap, workingDir |-> "", noInheritEnv |-> FALSE]

WithStdout(w, opts) == [opts EXCEPT !.stdout = w]

WithStdoutJSONDecoder(id, opts) ==
    [opts EXCEPT !.stdout = id, !.onExit = Append(@, id)]

WithStderr(w, opts) == [opts EXCEPT !.stderr = w]

WithStdin(r, opts) == [opts EXCEPT !.stdin = r]

WithDir(dir, opts) == [opts EXCEPT !.workingDir = dir]

\* a variant of WithEnvVars that installs the given map in place of the
\* record's map
WithEnvVarsReplace(env, opts) == [opts EXCEPT !.envVars = env]

\* exec.go:67-76 : every entry of env is written into the record's map
WithEnvVars(env, opts) ==
    [opts EXCEPT !.envVars =
        [k \in DOMAIN @ \cup DOMAIN env |-> IF k \in DOMAIN env THEN env[k] ELSE @[k]]]

WithNoInheritEnv(b, opts) == [opts EXCEPT !.noInheritEnv = b]

\* An option value: op names the constructor, arg its argument (env when the
\* argument is a map, flag when it is a bool), list the options an
\* ExecOptions combines.
Opt(op, arg) ==
    [op |-> op, arg |-> arg, env |-> EmptyMap, flag |-> FALSE, list |-> <<>>]
NoOpt == Opt("nil", "nil")
EnvOpt(env) == [Opt("WithEnvVars", "nil") EXCEPT !.env = env]
FlagOpt(b) == [Opt("WithNoInheritEnv", "nil") EXCEPT !.flag = b]
ExecOptions(list) == [Opt("ExecOptions", "nil") EXCEPT !.list = list]

RECURSIVE apply(_, _)
RECURSIVE applyAll(_, _)
apply(opt, opts) ==
    CASE opt.op = "nil" -> opts
      [] opt.op = "WithStdout" -> WithStdout(opt.arg, opts)
      [] opt.op = "WithStdoutJSONDecoder" -> WithStdoutJSONDecoder(opt.arg, opts)
      [] opt.op = "WithStderr" -> WithStderr(opt.arg, opts)
      [] opt.op = "WithStdin" -> WithStdin(opt.arg, opts)
      [] opt.op = "WithDir" -> WithDir(opt.arg, opts)
      [] opt.op = "WithEnvVars" -> WithEnvVars(opt.env, opts)
      [] opt.op = "WithNoInheritEnv" -> WithNoInheritEnv(opt.flag, opts)
      [] opt.op = "ExecOptions" -> applyAll(opt.list, opts)

applyAll(list, opts) ==
    IF list = <<>> THEN opts ELSE applyAll(Tail(list), apply(Head(list), opts))

\* The options the callers of the model choose from.
OptChoices ==
    { NoOpt,
      Opt("WithStdout", "buf"),
      Opt("WithStdout", "file"),
      Opt("WithStdoutJSONDecoder", "json1"),
      ExecOptions(<< Opt("WithStderr", "buf"), Opt("WithStdin", "rdr") >>) }

\* The options chosen from for the chains of LongStages stages.
LongOptChoices ==
    { NoOpt,
      Opt("WithStdout", "file"),
      Opt("WithStdoutJSONDecoder", "json1") }

\* What the callers of the model do: chains of at most MaxStages stages with
\* any option, under a context the caller can cancel (context.WithCancel,
\* context.WithTimeout), or chains of at most LongStages stages under a
\* context that is never done (context.Background).
\* out is the number of bytes the head process writes.
Profiles ==
    { [stages |-> MaxStages, opts |-> OptChoices, cancellable |-> TRUE, out |-> OutLen],
      [stages |-> LongStages, opts |-> LongOptChoices, cancellable |-> FALSE, out |-> OutLen] }

\* The callers of the runs under fair scheduling: the head process writes
\* more than a pipe and a copy in flight hold.  Pairs with every kind of
\* destination under a context that can be cancelled, and longer chains
\* mixing direct and tee links under one that cannot.
FairOptChoices == { NoOpt, Opt("WithStdout", "buf"), Opt("WithStdout", "file") }
LongFairOptChoices == { NoOpt, Opt("WithStdout", "buf") }

FairProfiles ==
    { [stages |-> MaxStages, opts |-> FairOptChoices, cancellable |-> TRUE, out |-> LongOut],
      [stages |-> LongStages, opts |-> LongFairOptChoices, cancellable |-> FALSE,
       out |-> LongOut] }

\* exec.go:167 : e.cmd.Stdout.(io.Closer)
IsCloser(w) == w = "file"

\* ---------------------------------------------------------------- handles
NilReader == [kind |-> "nil", w |-> "nil"]
NoCloses == [dst |-> 0, pw |-> 0, pr |-> 0]

\* ExecOpt (exec.go:128-155): the handle of a stage with no predecessor.
ExecOpt(opt) ==
    LET o == apply(opt, ZeroOptions)
    IN  [ prev |-> 0,
          cmd |-> [Stdin |-> [kind |-> o.stdin, w |-> "nil"],
                   Stdout |-> o.stdout, Stderr |-> o.stderr],
          closers |-> <<>>,
          onExit |-> o.onExit,
          exitCodes |-> <<>> ]

\* The zero value of the fields PipeOpt/Pipe2Opt leave out of the composite
\* literal they return (exec.go:186-190).
LinkedHandle(e, nextCmd) ==
    [ prev |-> e, cmd |-> nextCmd, closers |-> <<>>, onExit |-> <<>>,
      exitCodes |-> <<>> ]

VARIABLES
    lim,        \* the profile of the caller, one of Profiles
    n,          \* number of handles built
    h,          \* h[k]: the Exec handle of stage k
    given,      \* given[k]: the option the caller passed for stage k
    ctxDone,    \* the chain's context is cancelled or timed out
    liveAtDone, \* a process was running when the context became done
    api,        \* where the caller is: "build", "starting", "started",
                \* "startfailed", "waiting", "waited", "cancelled"
    si,         \* Start: position in StartOrder of the next stage to spawn
    wi,         \* Wait: position in WaitOrder of the stage being collected
    startRes,   \* what Start returned: "none", "nil", "spawn", "ctx",
                \* "already" (called again on a started chain)
    waitRes,    \* what Wait returned: "none", "nil", "failed", "ctx"
    failure,    \* the error of a Wait that returned "failed": the command it
                \* names, the joined errors and the stderr text (exec.go:299)
    waitErrs,   \* Wait's local waitErrs
    codes,      \* Wait's local exitCodes
    waits,      \* calls of Wait made on the handle
    sel,        \* Wait's select (exec.go:281): "run" (the caller is not parked
                \* in it), "parked" (blocked, no case ready), "ctx" / "recv"
                \* (woken from the block by ctx.Done / by errCh)
    worker,     \* worker[k]: Wait's goroutine for stage k: "none", "wait" (in
                \* cmd.Wait), "sent", "recv" (its result was received)
    errCh,      \* errCh[k]: the error the worker sent: "none", "nil", "exit",
                \* "ctx", "io", "already"
    pstate,     \* pstate[k]: "new", "running", "exited", "killed"
    status,     \* status[k]: what the wait on the process reported: its exit
                \* status, or SignalCode when a signal ended it
    early,      \* early[k]: the process exited before it was done
    own,        \* own[k]: own bytes written so far
    wrote,      \* wrote[k]: every byte the process wrote, in order
    recv,       \* recv[k]: every byte the process read from its stdin
    pipe,       \* pipe[k]: bytes in the OS pipe from stage k to stage k+1
    inpipe,     \* inpipe[k]: bytes in the stdin pipe os/exec feeds stage k by
    copier,     \* copier[k]: os/exec's stdin copy goroutine of stage k:
                \* "none", "run", "eof", "epipe", "err"
    sink,       \* sink[k][s]: bytes in the caller's destination of stream s
    diag,       \* diag[k]: the handle's internal stderr buffer
    closes,     \* closes[k][c]: how often closer c of stage k was closed
    spawnLog,   \* stages in the order their cmd.Start returned without error
    exitLog,    \* onExit callbacks run: <<stage, id, bytes parsed>>, in order
    decoded,    \* decoded[k]: bytes the last onExit callback of stage k parsed
    osEnviron,  \* os.Environ() of the caller: a sequence of KEY=VALUE texts
    optsIn,     \* the options o1, ..., on a caller combines
    coBase,     \* the cmdOptions record the options are applied to
    co,         \* the record after applying the first coAt options one by one
    coAt,       \* options of optsIn applied to co so far
    coAll,      \* << the record after applying ExecOptions(o1, ..., on) to
                \* coBase >>, << >> before
    cmdEnv,     \* << execCmd.Env as ExecOpt built it >>, << >> before
    procEnv,    \* << the environment of the spawned process >>, << >> before
    mfGiven,    \* the targets handed to NewEx and then to Add, in that order
    mfTargets,  \* Makefile.targets
    depNames,   \* the names Depend was called with
    depTargets, \* Depend's local targets: positions in mfTargets
    depAt,      \* position in depTargets of Depend's loop, 0 before the loop
    depRes,     \* << what Depend returned >>: "nil", "unknown", "e1", "e2";
                \* << >> before it returned
    running,    \* the target whose Body is running, 0 if none is
    mkLog,      \* the calls of exec, in order: the position in depNames, the
                \* target, what UpToDate gave ("nil" if the target has none),
                \* whether the Body was entered, what exec returned
    mtime,      \* mtime[f]: modification time of file f, or Missing
    upArgs,     \* the sources the called FileUpToDate function was made with
    upRes,      \* << what the FileUpToDate function returned >>, << >> before
    rbSources,  \* the sources the program passes to GoRebuildYourself
    rp,         \* the chain of processes of a run of the build program
    rbLog       \* "rebuild" for each go build that succeeded and "logic" for
                \* each run of the caller's build logic, in order

vars == << lim, n, h, given, ctxDone, liveAtDone, api, si, wi, startRes, waitRes, failure, waitErrs,
           codes, waits, sel, worker, errCh, pstate, status, early, own, wrote, recv, pipe, inpipe,
           copier, sink, diag, closes, spawnLog, exitLog, decoded,
           osEnviron, optsIn, coBase, co, coAt, coAll, cmdEnv, procEnv,
           mfGiven, mfTargets, depNames, depTargets, depAt, depRes, running, mkLog,
           mtime, upArgs, upRes, rbSources, rp, rbLog >>

build == << lim, n, h, given >>
context == << ctxDone, liveAtDone >>
caller == << api, si, wi, startRes, waitRes, failure, waitErrs, codes, waits, sel >>
workers == << worker, errCh >>
procs == << pstate, status, early, own, wrote, recv >>
pipes == << pipe, inpipe, copier >>
bufs == << sink, diag, closes >>
logs == << spawnLog, exitLog, decoded >>
options == << osEnviron, optsIn, coBase, co, coAt, coAll, cmdEnv, procEnv >>
\* the variables of the pipeline engine, and those of the other parts
engine == << build, context, caller, workers, procs, pipes, bufs, logs >>
make == << mfGiven, mfTargets, depNames, depTargets, depAt, depRes, running, mkLog >>
filesys == << mtime, upArgs, upRes >>
root == << rbSources, rp, rbLog >>
side == << options, make, filesys, root >>

\* Wait returned no "command failed" error.
NoFailure == [args |-> 0, errs |-> <<>>, stderr |-> <<>>]

NoHandle == LinkedHandle(0, [Stdin |-> NilReader, Stdout |-> "nil", Stderr |-> "nil"])

\* no handle built, nothing started
InitChain ==
    /\ n = 0
    /\ h = [k \in Stages |-> NoHandle]
    /\ given = [k \in Stages |-> NoOpt]
    /\ ctxDone = FALSE
    /\ liveAtDone = FALSE
    /\ api = "build"
    /\ si = 0
    /\ wi = 0
    /\ startRes = "none"
    /\ waitRes = "none"
    /\ failure = NoFailure
    /\ waitErrs = <<>>
    /\ codes = <<>>
    /\ waits = 0
    /\ sel = "run"
    /\ worker = [k \in Stages |-> "none"]
    /\ errCh = [k \in Stages |-> "none"]
    /\ pstate = [k \in Stages |-> "new"]
    /\ status = [k \in Stages |-> 0]
    /\ early = [k \in Stages |-> FALSE]
    /\ own = [k \in Stages |-> 0]
    /\ wrote = [k \in Stages |-> <<>>]
    /\ recv = [k \in Stages |-> <<>>]
    /\ pipe = [k \in Stages |-> <<>>]
    /\ inpipe = [k \in Stages |-> <<>>]
    /\ copier = [k \in Stages |-> "none"]
    /\ sink = [k \in Stages |-> [s \in Streams |-> <<>>]]
    /\ diag = [k \in Stages |-> <<>>]
    /\ closes = [k \in Stages |-> NoCloses]
    /\ spawnLog = <<>>
    /\ exitLog = <<>>
    /\ decoded = [k \in Stages |-> <<>>]

InitExec ==
    /\ lim \in Profiles
    /\ InitChain

\* No option set is being combined.
IdleOptions ==
    /\ osEnviron = <<>>
    /\ optsIn = <<>>
    /\ coBase = ZeroOptions
    /\ co = ZeroOptions
    /\ coAt = 0
    /\ coAll = <<>>
    /\ cmdEnv = <<>>
    /\ procEnv = <<>>

\* No Makefile is in use.
IdleMake ==
    /\ mfGiven = <<>>
    /\ mfTargets = <<>>
    /\ depNames = <<>>
    /\ depTargets = <<>>
    /\ depAt = 0
    /\ depRes = <<>>
    /\ running = 0
    /\ mkLog = <<>>

\* os.Stat(file) fails (files.go:131-134)
Missing == -1
\* time.Time{} (files.go:106, 133)
ZeroTime == 0

\* the files of the model: a target (the gnob binary) and two sources
Files == {"bin", "s1", "s2"}

\* No file is looked at.
IdleFiles ==
    /\ mtime = [f \in Files |-> Missing]
    /\ upArgs = <<>>
    /\ upRes = <<>>

\* No build program runs.
IdleRoot ==
    /\ rbSources = <<>>
    /\ rp = <<>>
    /\ rbLog = <<>>

Init == InitExec /\ IdleOptions /\ IdleMake /\ IdleFiles /\ IdleRoot

\* ------------------------------------------------------------ construction
\* Cmd.ExecOpt (exec.go:128-155): the head of a chain.
Exec(opt) ==
    /\ api = "build"
    /\ opt \in lim.opts
    /\ n = 0
    /\ n' = 1
    /\ h' = [h EXCEPT ![1] = ExecOpt(opt)]
    /\ given' = [given EXCEPT ![1] = opt]
    /\ UNCHANGED << lim, side, context, caller, workers, procs, pipes, bufs, logs >>

\* A tee that forwards the pipe to the successor without copying into dst.
TeeReaderDiscards(dst) == [kind |-> "tee", w |-> "nil"]

\* A link that leaves a stdin the successor's options set in place.
LinkedStdinKeepsReader(set, link) == IF set.kind = "nil" THEN link ELSE set

\* next.cmd.Stdin = tr (exec.go:177, 213), next.cmd.Stdin, err =
\* e.cmd.StdoutPipe() (exec.go:181, 217): the link replaces whatever ExecOpt
\* had put in the field (exec.go:146).
LinkedStdin(set, link) == link

\* io.TeeReader(pr, dst) (exec.go:175, 211): a reader of the pipe that
\* copies what is read from it into dst.
TeeReader(dst) == [kind |-> "tee", w |-> dst]

\* The handles after e.PipeOpt / e.Pipe2Opt (exec.go:164-227) on the tail
\* handle e = n, linking stream s ("out": PipeOpt, "err": Pipe2Opt) of e.
\* next is the handle ExecOpt builds; only next.cmd reaches the result.
LinkHandles(hs, e, opt, s) ==
    LET next == ExecOpt(opt)
        dst == IF s = "out" THEN hs[e].cmd.Stdout ELSE hs[e].cmd.Stderr
        setOut(c, w) == IF s = "out" THEN [c EXCEPT !.Stdout = w]
                                     ELSE [c EXCEPT !.Stderr = w]
        teed == dst # "nil"
        eClosers == IF teed
                    THEN hs[e].closers
                         \o (IF IsCloser(dst) THEN <<"dst">> ELSE <<>>)
                         \o <<"pw">>
                    ELSE hs[e].closers
        eCmd == setOut(hs[e].cmd, IF teed THEN "pw" ELSE "pipe")
        nextStdin == LinkedStdin(next.cmd.Stdin,
                                 IF teed THEN TeeReader(dst)
                                         ELSE [kind |-> "pipe", w |-> "nil"])
        \* next.closers = append(next.closers, pr): next is dropped
        nextLinked == [next EXCEPT !.cmd.Stdin = nextStdin,
                                   !.closers = IF teed THEN Append(@, "pr") ELSE @]
    IN  [hs EXCEPT ![e] = [@ EXCEPT !.cmd = eCmd, !.closers = eClosers],
                   ![e + 1] = LinkedHandle(e, nextLinked.cmd)]

PipeOpt(opt) ==
    /\ api = "build"
    /\ opt \in lim.opts
    /\ n >= 1
    /\ n < lim.stages
    /\ n' = n + 1
    /\ h' = LinkHandles(h, n, opt, "out")
    /\ given' = [given EXCEPT ![n + 1] = opt]
    /\ UNCHANGED << lim, side, context, caller, workers, procs, pipes, bufs, logs >>

Pipe2Opt(opt) ==
    /\ api = "build"
    /\ opt \in lim.opts
    /\ n >= 1
    /\ n < lim.stages
    /\ n' = n + 1
    /\ h' = LinkHandles(h, n, opt, "err")
    /\ given' = [given EXCEPT ![n + 1] = opt]
    /\ UNCHANGED << lim, side, context, caller, workers, procs, pipes, bufs, logs >>

\* The stream of stage k that feeds stage k + 1 ("none" for the tail).
LinkOf(k) ==
    CASE h[k].cmd.Stdout \in {"pw", "pipe"} -> "out"
      [] h[k].cmd.Stderr \in {"pw", "pipe"} -> "err"
      [] OTHER -> "none"

\* The chain list Start and Wait build by walking prev (exec.go:247-251,
\* 266-270): the handle itself first, the head last.
RECURSIVE ChainOf(_)
ChainOf(e) == IF e = 0 THEN <<>> ELSE <<e>> \o ChainOf(h[e].prev)

\* ------------------------------------------------------------------- bytes
\* The bytes the process of stage k writes on its own, e.g. <<11, 12>> for
\* the head and <<21>> for its successor.
OwnLen(k) == IF k = 1 THEN lim.out ELSE TokLen
OwnData(k) == [i \in 1..OwnLen(k) |-> 10 * k + i]

\* The destination the caller configured for stdout of stage k: the field
\* itself, or what the tee reader of the successor copies into once PipeOpt
\* has replaced the field by the pipe's write end (exec.go:175-177).
OrigWriter(k, s) ==
    LET w == IF s = "out" THEN h[k].cmd.Stdout ELSE h[k].cmd.Stderr
    IN  IF w = "pw" THEN h[k + 1].cmd.Stdin.w ELSE w

\* The bytes in the internal buffer of JSON decoder id of stage k: the
\* buffer receives bytes only while it is the stage's stdout destination.
JsonBuf(k, id) == IF OrigWriter(k, "out") = id THEN sink[k]["out"] ELSE <<>>

\* A write of the process of stage k blocks while the pipe to its successor
\* is full.  The parent keeps the read end open, so it never breaks.
CanWrite(k) == LinkOf(k) = "none" \/ Len(pipe[k]) < PipeCap

CaptureWriters == {"buf", "file", "json1", "json2"}
DiagWriters == {"diag", "diag+buf", "diag+file"}

\* sink, diag and pipe after the process of stage k wrote byte b to its
\* stdout and its stderr.
SinkAfter(k, b) ==
    [sink EXCEPT ![k] =
        [s \in Streams |->
            LET w == IF s = "out" THEN h[k].cmd.Stdout ELSE h[k].cmd.Stderr
            IN  IF w \in CaptureWriters \/ w \in {"diag+buf", "diag+file"}
                THEN Append(sink[k][s], b) ELSE sink[k][s]]]

DiagAfter(k, b) ==
    IF h[k].cmd.Stderr \in DiagWriters
    THEN [diag EXCEPT ![k] = Append(@, b)] ELSE diag

PipeAfter(p, k, b) ==
    IF LinkOf(k) # "none" THEN [p EXCEPT ![k] = Append(@, b)] ELSE p

\* No more input will arrive on the stdin of stage k.
StdinEOF(k) ==
    CASE h[k].cmd.Stdin.kind = "pipe" ->
            pipe[k - 1] = <<>> /\ pstate[k - 1] \in {"exited", "killed"}
      [] h[k].cmd.Stdin.kind = "tee" ->
            inpipe[k] = <<>> /\ copier[k] \in {"eof", "epipe", "err"}
      [] h[k].cmd.Stdin.kind = "rdr" -> Len(recv[k]) = Len(ReaderData)
      [] OTHER -> TRUE

\* The process of stage k has done all its program does.
ProcDone(k) == own[k] = OwnLen(k) /\ StdinEOF(k)

\* ------------------------------------------------------------------- Start
\* Start (exec.go:240-251): the stderr of the handle Start is called on is
\* wired to its internal buffer, alone or beside the caller's destination.
StartStderr(w) ==
    CASE w = "nil" -> "diag"
      [] w = "buf" -> "diag+buf"
      [] w = "file" -> "diag+file"
      [] OTHER -> w

Reverse(q) == [i \in 1..Len(q) |-> q[Len(q) + 1 - i]]

\* Start's loop running up the chain list instead of down.
StartOrderTailFirst(chain) == chain

\* Wait's loop running up the chain list instead of down.
WaitOrderTailFirst(chain) == chain

\* The stages in the order Start's loop spawns them: the chain list from its
\* last entry (the head) down to its first (exec.go:252).
StartOrder(chain) == Reverse(chain)

\* The stages in the order Wait's loop collects them (exec.go:273).
WaitOrder(chain) == Reverse(chain)

CallStart ==
    /\ api = "build"
    /\ n >= 1
    /\ api' = "starting"
    /\ h' = [h EXCEPT ![n].cmd.Stderr = StartStderr(@)]
    /\ si' = 1
    /\ UNCHANGED << lim, side, n, given, context, wi, startRes, waitRes, failure, waitErrs, waits,
                    codes, sel, workers, procs, pipes, bufs, logs >>

\* chain[i].Start() returned nil (exec.go:253); after the last stage Start
\* returns nil (exec.go:257).
StartSpawn ==
    /\ api = "starting"
    /\ ~ctxDone
    /\ LET k == StartOrder(ChainOf(n))[si]
       IN  /\ pstate' = [pstate EXCEPT ![k] = "running"]
           /\ copier' = [copier EXCEPT ![k] =
                            IF h[k].cmd.Stdin.kind = "tee" THEN "run" ELSE @]
           /\ spawnLog' = Append(spawnLog, k)
    /\ si' = si + 1
    /\ IF si < Len(ChainOf(n))
       THEN UNCHANGED << api, startRes >>
       ELSE api' = "started" /\ startRes' = "nil"
    /\ UNCHANGED << build, side, context, wi, waitRes, failure, waitErrs, waits, codes, sel, workers,
                    status, early, own, wrote, recv, pipe, inpipe, bufs,
                    exitLog, decoded >>

\* Start carrying on as if started after a failed spawn.
StartFailureIgnored(res) ==
    /\ api' = "started"
    /\ startRes' = res
    /\ UNCHANGED << build, side, context, si, wi, waitRes, failure, waitErrs, waits, codes, sel,
                    workers, procs, pipes, bufs, logs >>

\* What Start does when chain[i].Start() returns an error: it returns it.
StartFailure(res) ==
    /\ api' = "startfailed"
    /\ startRes' = res
    /\ UNCHANGED << build, side, context, si, wi, waitRes, failure, waitErrs, waits, codes, sel,
                    workers, procs, pipes, bufs, logs >>

\* chain[i].Start() failed to spawn the process (exec.go:253-255).
StartSpawnFails ==
    /\ api = "starting"
    /\ ~ctxDone
    /\ StartFailure("spawn")

\* Start reporting success under a context that is already done.
StartCtxIgnored ==
    /\ api = "starting"
    /\ ctxDone
    /\ api' = "started"
    /\ startRes' = "nil"
    /\ UNCHANGED << build, side, context, si, wi, waitRes, failure, waitErrs, waits, codes, sel,
                    workers, procs, pipes, bufs, logs >>

\* Start called again on a handle that was run: the stderr of the handle is
\* wrapped once more, and chain[i].Start() of the head returns os/exec's
\* error for a command that was already started (exec.go:253-255).
StartAgain ==
    /\ api \in {"waited", "cancelled"}
    /\ startRes = "nil"
    /\ h' = [h EXCEPT ![n].cmd.Stderr = StartStderr(@)]
    /\ startRes' = "already"
    /\ UNCHANGED << lim, side, n, given, context, api, si, wi, waitRes, failure, waitErrs, waits,
                    codes, sel, workers, procs, pipes, bufs, logs >>

\* exec.CommandContext (exec.go:133): cmd.Start returns the context's error
\* without spawning when the context is already done.
StartCtxDone ==
    /\ api = "starting"
    /\ ctxDone
    /\ StartFailure("ctx")

\* --------------------------------------------------------------- processes
ProcWriteOwn(k) ==
    /\ pstate[k] = "running"
    /\ own[k] < OwnLen(k)
    /\ CanWrite(k)
    /\ LET b == OwnData(k)[own[k] + 1]
       IN  /\ wrote' = [wrote EXCEPT ![k] = Append(@, b)]
           /\ sink' = SinkAfter(k, b)
           /\ diag' = DiagAfter(k, b)
           /\ pipe' = PipeAfter(pipe, k, b)
    /\ own' = [own EXCEPT ![k] = @ + 1]
    /\ UNCHANGED << build, side, context, caller, workers, pstate, status, early,
                    recv, inpipe, copier, closes, logs >>

\* The process reads one byte of its stdin and writes it out.
ProcCopy(k) ==
    /\ pstate[k] = "running"
    /\ own[k] = OwnLen(k)
    /\ CanWrite(k)
    /\ h[k].cmd.Stdin.kind \in {"pipe", "tee", "rdr"}
    /\ LET src == CASE h[k].cmd.Stdin.kind = "tee" -> inpipe[k]
                   [] h[k].cmd.Stdin.kind = "pipe" -> pipe[k - 1]
                   [] OTHER -> SubSeq(ReaderData, Len(recv[k]) + 1, Len(ReaderData))
           b == Head(src)
       IN  /\ src # <<>>
           /\ recv' = [recv EXCEPT ![k] = Append(@, b)]
           /\ wrote' = [wrote EXCEPT ![k] = Append(@, b)]
           /\ sink' = SinkAfter(k, b)
           /\ diag' = DiagAfter(k, b)
           /\ CASE h[k].cmd.Stdin.kind = "tee" ->
                    /\ inpipe' = [inpipe EXCEPT ![k] = Tail(@)]
                    /\ pipe' = PipeAfter(pipe, k, b)
                [] h[k].cmd.Stdin.kind = "pipe" ->
                    /\ inpipe' = inpipe
                    /\ pipe' = PipeAfter([pipe EXCEPT ![k - 1] = Tail(@)], k, b)
                [] OTHER ->
                    /\ inpipe' = inpipe
                    /\ pipe' = PipeAfter(pipe, k, b)
    /\ UNCHANGED << build, side, context, caller, workers, pstate, status, early,
                    own, copier, closes, logs >>

\* The process exits, at the end of its program or, once it has written
\* its own bytes, before it has read all of its input.
ProcExit(k) ==
    /\ pstate[k] = "running"
    /\ own[k] = OwnLen(k)
    /\ pstate' = [pstate EXCEPT ![k] = "exited"]
    /\ early' = [early EXCEPT ![k] = ~ProcDone(k)]
    /\ UNCHANGED << build, side, context, caller, workers, status, own, wrote, recv,
                    pipes, bufs, logs >>

\* The caller cancels the context, or its deadline expires.  A Wait that is
\* parked in its select is woken by ctx.Done.
Cancel ==
    /\ lim.cancellable
    /\ ~ctxDone
    /\ n >= 1
    /\ ctxDone' = TRUE
    /\ liveAtDone' = \E k \in Stages : pstate[k] = "running"
    /\ sel' = IF sel = "parked" THEN "ctx" ELSE sel
    /\ UNCHANGED << build, side, api, si, wi, startRes, waitRes, failure, waitErrs, waits, codes,
                    workers, procs, pipes, bufs, logs >>

\* The commands were made by exec.CommandContext (exec.go:133): once the
\* context is done, os/exec kills the process of a started command that is
\* still running.
CtxKill(k) ==
    /\ ctxDone
    /\ pstate[k] = "running"
    /\ pstate' = [pstate EXCEPT ![k] = "killed"]
    /\ early' = [early EXCEPT ![k] = ~ProcDone(k)]
    /\ UNCHANGED << build, side, context, caller, workers, status, own, wrote, recv,
                    pipes, bufs, logs >>

\* ------------------------------------------------------------- tee copying
\* next.cmd.Stdin = io.TeeReader(pr, dst) (exec.go:175-177) is no *os.File,
\* so os/exec feeds the successor through a pipe of its own and a goroutine
\* that copies from the tee reader: each byte read from pr is written to
\* dst, then to the successor's stdin.
CopierMove(k) ==
    /\ copier[k] = "run"
    /\ pipe[k - 1] # <<>>
    /\ LET b == Head(pipe[k - 1])
           s == LinkOf(k - 1)
       IN  /\ pipe' = [pipe EXCEPT ![k - 1] = Tail(@)]
           /\ IF closes[k - 1].dst > 0
              THEN \* the write to the closed destination fails
                   /\ copier' = [copier EXCEPT ![k] = "err"]
                   /\ UNCHANGED << sink, inpipe >>
              ELSE /\ sink' = IF h[k].cmd.Stdin.w \in CaptureWriters
                              THEN [sink EXCEPT ![k - 1][s] = Append(@, b)]
                              ELSE sink
                   /\ IF pstate[k] \in {"exited", "killed"}
                      THEN \* EPIPE on the successor's stdin ends the copy
                           /\ copier' = [copier EXCEPT ![k] = "epipe"]
                           /\ inpipe' = inpipe
                      ELSE /\ Len(inpipe[k]) < PipeCap
                           /\ inpipe' = [inpipe EXCEPT ![k] = Append(@, b)]
                           /\ copier' = copier
    /\ UNCHANGED << build, side, context, caller, workers, procs, diag, closes, logs >>

\* pr reports end of file once the pipe is empty and both copies of its
\* write end are closed: the predecessor's (at its exit) and the parent's
\* (closed as a closer of the predecessor).
CopierEOF(k) ==
    /\ copier[k] = "run"
    /\ pipe[k - 1] = <<>>
    /\ pstate[k - 1] \in {"exited", "killed"}
    /\ closes[k - 1].pw > 0
    /\ copier' = [copier EXCEPT ![k] = "eof"]
    /\ UNCHANGED << build, side, context, caller, workers, procs, pipe, inpipe,
                    bufs, logs >>

\* -------------------------------------------------------------------- Wait
\* The stage Wait's loop is collecting.
Collecting == WaitOrder(ChainOf(n))[wi]

\* closes after every closer of the list was closed once more.
RECURSIVE CloseAll(_, _)
CloseAll(list, c) ==
    IF list = <<>> THEN c
    ELSE CloseAll(Tail(list), [c EXCEPT ![Head(list)] = @ + 1])

\* Wait starting the workers of all stages at once.
StartAllWorkers(k) ==
    /\ worker' = [j \in Stages |-> IF j <= n THEN "wait" ELSE "none"]
    /\ closes' = [j \in Stages |-> CloseAll(h[j].closers, closes[j])]

\* go func() { ... } (exec.go:275-280): the worker of stage k closes the
\* closers of its stage, then blocks in cmd.Wait.
StartWorker(k) ==
    /\ worker' = [worker EXCEPT ![k] = "wait"]
    /\ closes' = [closes EXCEPT ![k] = CloseAll(h[k].closers, @)]

\* Wait (exec.go:264-280): the chain list is built, and the first iteration
\* starts the worker goroutine of its stage.
CallWait ==
    /\ api = "started"
    /\ api' = "waiting"
    /\ wi' = 1
    /\ waitErrs' = <<>>
    /\ codes' = <<>>
    /\ waits' = 1
    /\ sel' = "run"
    /\ StartWorker(WaitOrder(ChainOf(n))[1])
    /\ UNCHANGED << build, side, context, si, startRes, waitRes, failure, errCh, procs, pipes,
                    sink, diag, logs >>

\* Wait called again on a handle whose Wait has completed: the same code
\* runs once more, with new worker goroutines and channels.
WaitAgain ==
    /\ api = "waited"
    /\ waits < MaxWaits
    /\ api' = "waiting"
    /\ wi' = 1
    /\ waitErrs' = <<>>
    /\ codes' = <<>>
    /\ waits' = waits + 1
    /\ sel' = "run"
    /\ LET k == WaitOrder(ChainOf(n))[1]
       IN  /\ worker' = [j \in Stages |-> IF j = k THEN "wait" ELSE "none"]
           /\ closes' = [closes EXCEPT ![k] = CloseAll(h[k].closers, @)]
    /\ errCh' = [j \in Stages |-> "none"]
    /\ UNCHANGED << build, side, context, si, startRes, waitRes, failure, procs, pipes,
                    sink, diag, logs >>

\* cmd.Wait returns once the process has exited and the stdin copy goroutine
\* of the command has ended.
CmdWaitReady(k) == pstate[k] \in {"exited", "killed"} /\ copier[k] # "run"

\* The error cmd.Wait returns: an *exec.ExitError ("exit") for a process that
\* did not exit with status 0, else the context's error ("ctx") when os/exec
\* signalled the process for the done context, else the error of the copy
\* goroutine ("io"), else nil.  EPIPE on the stdin copy is no error.
CmdWaitErr(k, st, watch) ==
    CASE st # 0 -> "exit"
      [] watch = "ctx" -> "ctx"
      [] copier[k] = "err" -> "io"
      [] OTHER -> "nil"

\* What os/exec's watch on the context reports to cmd.Wait: nil, or the
\* context's error when the context was done before the exited process was
\* reaped (the kill then reaches the exited process without error).
WatchChoices(k) ==
    IF ctxDone /\ pstate[k] = "exited" THEN {"nil", "ctx"} ELSE {"nil"}

\* The statuses the wait on the process of stage k can report.
StatusChoices(k) == IF pstate[k] = "killed" THEN {SignalCode} ELSE ExitStatuses

\* a channel without a buffer: the send waits for Wait's select to receive
SendReadyUnbuffered(k) == api = "waiting" /\ Collecting = k

\* errCh := make(chan error, 1) (exec.go:274): each worker has a channel of
\* its own with room for one value, so its one send never waits.
SendReady(k) == TRUE

\* errCh <- chain[i].cmd.Wait() (exec.go:279); errCh is buffered.
WorkerSend(k, st, watch) ==
    /\ worker[k] = "wait"
    /\ CmdWaitReady(k)
    /\ SendReady(k)
    /\ st \in StatusChoices(k)
    /\ watch \in WatchChoices(k)
    /\ worker' = [worker EXCEPT ![k] = "sent"]
    /\ IF waits > 1
       THEN \* cmd.Wait on a command already waited on returns an error
            /\ status' = status
            /\ errCh' = [errCh EXCEPT ![k] = "already"]
       ELSE /\ status' = [status EXCEPT ![k] = st]
            /\ errCh' = [errCh EXCEPT ![k] = CmdWaitErr(k, st, watch)]
    /\ sel' = IF api = "waiting" /\ sel = "parked" THEN "recv" ELSE sel
    /\ UNCHANGED << build, side, context, api, si, wi, startRes, waitRes, failure, waitErrs, waits,
                    codes, pstate, early, own, wrote, recv, pipes, bufs, logs >>

\* select (exec.go:281): no case is ready, the caller blocks.
SelectPark ==
    /\ api = "waiting"
    /\ sel = "run"
    /\ ~ctxDone
    /\ worker[Collecting] = "wait"
    /\ sel' = "parked"
    /\ UNCHANGED << build, side, context, api, si, wi, startRes, waitRes, failure, waitErrs, waits,
                    codes, workers, procs, pipes, bufs, logs >>

\* A Wait that records the "no exit code" value for an error that is not an
\* exit status.
ExitCodeOrNone(err, k) ==
    IF err = "exit" THEN status[k] ELSE IF err = "nil" THEN 0 ELSE NoExitCode

\* The exit code Wait records for an error (exec.go:289-294).
ExitCodeFor(err, k) == IF err = "exit" THEN status[k] ELSE 0

\* for _, f := range chain[i].onExit { f() } (exec.go:285-287): exitLog after
\* the callbacks of the list ran, each parsing its decoder's buffer.
RECURSIVE RunOnExit(_, _, _)
RunOnExit(list, k, log) ==
    IF list = <<>> THEN log
    ELSE RunOnExit(Tail(list), k, Append(log, <<k, Head(list), JsonBuf(k, Head(list))>>))

\* json.Unmarshal(buf.Bytes(), out) (exec.go:40): nil when the buffer holds
\* the document stage k writes, its own bytes, and an error for anything
\* else, a truncated or empty buffer included.
Unmarshal(k, bytes) == IF bytes = OwnData(k) THEN "nil" ELSE "json"

\* The results of json.Unmarshal in the onExit callbacks of stage k.
DecodeErrs(k) ==
    [i \in 1..Len(h[k].onExit) |-> Unmarshal(k, JsonBuf(k, h[k].onExit[i]))]

\* A callback loop that hands a decode error to Wait when the wait on the
\* stage gave none.
OnExitErrSurfaced(err, k) ==
    IF err = "nil" /\ \E i \in DOMAIN DecodeErrs(k) : DecodeErrs(k)[i] # "nil"
    THEN "json" ELSE err

\* The error Wait appends for stage k after the callbacks ran (exec.go:285-
\* 288): a callback returns nothing and drops the result of json.Unmarshal
\* (exec.go:40), so it is the error received from errCh.
OnExitErr(err, k) == err

\* errors.Join(waitErrs...) != nil (exec.go:298)
JoinedNonNil(errs) == \E i \in 1..Len(errs) : errs[i] # "nil"

\* The errors of the list paired with the stage they belong to.
StageErrs(errs) == [i \in 1..Len(errs) |-> << WaitOrder(ChainOf(n))[i], errs[i] >>]

\* A join that keeps only the first error.
JoinFirst(errs) ==
    LET q == SelectSeq(StageErrs(errs), LAMBDA p : p[2] # "nil")
    IN  IF q = <<>> THEN q ELSE << Head(q) >>

\* errors.Join(waitErrs...) (exec.go:298): the non-nil errors, in order.
Join(errs) == SelectSeq(StageErrs(errs), LAMBDA p : p[2] # "nil")

\* fmt.Errorf("command failed (%v): %w\n%s", e.cmd.Args, err,
\* e.stderr.String()) (exec.go:299), e being the handle Wait is called on.
CommandFailed(errs) == [args |-> n, errs |-> Join(errs), stderr |-> diag[n]]

\* A select that finds errCh ready on arrival, or was woken by it, or was
\* woken by ctx.Done, takes the errCh case.
CanReceiveAfterCtxWake == sel \in {"run", "recv", "ctx"}

\* The select takes the errCh case when it finds errCh ready on arrival or
\* was woken from its block by errCh.
CanReceive == sel \in {"run", "recv"}

\* case err := <-errCh (exec.go:284-295), and after the last stage the end
\* of Wait (exec.go:297-301).
WaitRecv ==
    /\ api = "waiting"
    /\ CanReceive
    /\ sel' = "run"
    /\ LET k == Collecting
           err == OnExitErr(errCh[k], k)
           newErrs == Append(waitErrs, err)
           newCodes == Append(codes, ExitCodeFor(err, k))
       IN  /\ worker[k] = "sent"
           /\ exitLog' = RunOnExit(h[k].onExit, k, exitLog)
           /\ decoded' = [decoded EXCEPT ![k] =
                            IF h[k].onExit = <<>> THEN @
                            ELSE JsonBuf(k, h[k].onExit[Len(h[k].onExit)])]
           /\ waitErrs' = newErrs
           /\ codes' = newCodes
           /\ IF wi < Len(ChainOf(n))
              THEN /\ wi' = wi + 1
                   /\ LET j == WaitOrder(ChainOf(n))[wi + 1]
                      IN  /\ worker' = [worker EXCEPT ![k] = "recv", ![j] = "wait"]
                          /\ closes' = [closes EXCEPT ![j] = CloseAll(h[j].closers, @)]
                   /\ UNCHANGED << h, api, waitRes, failure >>
              ELSE /\ wi' = wi
                   /\ worker' = [worker EXCEPT ![k] = "recv"]
                   /\ closes' = closes
                   /\ h' = [h EXCEPT ![n].exitCodes = newCodes]
                   /\ api' = "waited"
                   /\ waitRes' = IF JoinedNonNil(newErrs) THEN "failed" ELSE "nil"
                   /\ failure' = IF JoinedNonNil(newErrs)
                                 THEN CommandFailed(newErrs) ELSE NoFailure
    /\ UNCHANGED << lim, side, n, given, context, si, startRes, waits, errCh, procs,
                    pipes, sink, diag, spawnLog >>

\* case <-e.ctx.Done(): return e.ctx.Err() (exec.go:282-283)
WaitCtxDone ==
    /\ api = "waiting"
    /\ ctxDone
    /\ sel \in {"run", "ctx"}
    /\ api' = "cancelled"
    /\ waitRes' = "ctx"
    /\ failure' = NoFailure
    /\ UNCHANGED << build, side, context, si, wi, startRes, waitErrs, waits, codes, sel,
                    workers, procs, pipes, bufs, logs >>

\* Run (exec.go:230-235): Start's error if Start failed, else Wait's result.
RunRes == IF startRes \in {"spawn", "ctx", "already"} THEN startRes ELSE waitRes

\* ExitCodes, ExitCode (exec.go:305-315) of the tail handle.
ExitCodes == h[n].exitCodes

\* ExitCode returning the first recorded code instead of the last.
ExitCodeOfHead ==
    IF Len(h[n].exitCodes) = 0 THEN NoExitCode ELSE h[n].exitCodes[1]

ExitCode ==
    IF Len(h[n].exitCodes) = 0 THEN NoExitCode
    ELSE h[n].exitCodes[Len(h[n].exitCodes)]

\* ----------------------------------------------------------- specification
Next ==
    \/ \E opt \in OptChoices : Exec(opt)
    \/ \E opt \in OptChoices : PipeOpt(opt)
    \/ \E opt \in OptChoices : Pipe2Opt(opt)
    \/ CallStart
    \/ StartSpawn
    \/ StartSpawnFails
    \/ StartCtxDone
    \/ CallWait
    \/ \E k \in Stages, st \in {SignalCode} \cup ExitStatuses,
          watch \in {"nil", "ctx"} : WorkerSend(k, st, watch)
    \/ SelectPark
    \/ WaitRecv
    \/ WaitCtxDone
    \/ \E k \in Stages : ProcWriteOwn(k)
    \/ \E k \in Stages : ProcCopy(k)
    \/ \E k \in Stages : ProcExit(k)
    \/ \E k \in Stages : CopierMove(k)
    \/ \E k \in Stages : CopierEOF(k)
    \/ Cancel
    \/ \E k \in Stages : CtxKill(k)

Spec == Init /\ [][Next]_vars

\* Callers that also call Start and Wait again on a handle they have run.
NextRepeat ==
    \/ Next
    \/ StartAgain
    \/ WaitAgain

SpecRepeat == Init /\ [][NextRepeat]_vars

\* The runs under fair scheduling.  What the scheduler guarantees: every
\* process that can take a step of its program takes one, os/exec's
\* goroutines (the stdin copy, the kill on a done context) and Wait's worker
\* goroutines run, and a caller inside Wait runs.  Nothing makes a caller
\* build, start, wait for or cancel anything.
InitFair ==
    /\ InitChain
    /\ lim \in FairProfiles
    /\ IdleOptions
    /\ IdleMake
    /\ IdleFiles
    /\ IdleRoot

\* a step of a process, of a goroutine of os/exec, of a worker goroutine of
\* Wait, or of a caller inside Wait
Scheduled ==
    \/ \E k \in Stages : ProcWriteOwn(k) \/ ProcCopy(k) \/ ProcExit(k)
    \/ \E k \in Stages : CopierMove(k) \/ CopierEOF(k) \/ CtxKill(k)
    \/ \E k \in Stages, st \in {SignalCode} \cup ExitStatuses, watch \in {"nil", "ctx"} :
           WorkerSend(k, st, watch)
    \/ SelectPark
    \/ WaitRecv
    \/ WaitCtxDone

Scheduling == WF_vars(Scheduled)

SpecFair == InitFair /\ [][Next]_vars /\ Scheduling

\* ------------------------------------------------------------- environment
\* The option sets and the environment of a spawned process, as a machine of
\* its own: a caller chooses the options o1, ..., on, they are applied one
\* after another and combined by ExecOptions, ExecOpt builds execCmd.Env
\* from the result and os/exec hands it to the process.
MaxOpts == 3        \* options a caller combines

\* fmt.Sprintf("%s=%s", k, v) (exec.go:143)
Entry(k, v) == k \o << "=" >> \o v

\* the position of the first "=" of an entry, 0 when it has none
EqAt(kv) ==
    IF \E i \in 1..Len(kv) : kv[i] = "="
    THEN CHOOSE i \in 1..Len(kv) : kv[i] = "=" /\ \A j \in 1..(i - 1) : kv[j] # "="
    ELSE 0

\* The name and the value a process takes from an entry of its environment.
EntryKey(kv) == IF EqAt(kv) = 0 THEN kv ELSE SubSeq(kv, 1, EqAt(kv) - 1)
EntryValue(kv) == IF EqAt(kv) = 0 THEN <<>> ELSE SubSeq(kv, EqAt(kv) + 1, Len(kv))

\* A slice of entries; nil tells the nil slice from an empty one.
\* var environ []string
NilEnviron == [nil |-> TRUE, list |-> <<>>]
\* make([]string, 0, len(o.envVars)) (exec.go:137)
MakeEnviron == [nil |-> FALSE, list |-> <<>>]
\* append(sl, entries...)
AppendAll(sl, entries) ==
    [nil |-> sl.nil /\ entries = <<>>, list |-> sl.list \o entries]

\* the entries of envVars, in the order in which range visits the keys
VarEntries(o, order) == [i \in 1..Len(order) |-> Entry(order[i], o.envVars[order[i]])]

\* a variant that puts the entries of envVars before the inherited ones
EnvironVarsFirst(o, osEnv, order) ==
    AppendAll(AppendAll(MakeEnviron, VarEntries(o, order)),
              IF o.noInheritEnv THEN <<>> ELSE osEnv)

\* exec.go:137-145 : the slice ExecOpt assigns to execCmd.Env
Environ(o, osEnv, order) ==
    LET inherited == IF o.noInheritEnv THEN MakeEnviron
                     ELSE AppendAll(MakeEnviron, osEnv)
    IN  IF DOMAIN o.envVars # {}
        THEN AppendAll(inherited, VarEntries(o, order))
        ELSE inherited

\* the orders in which range can visit the keys of a map
RangeOrders(m) ==
    {q \in [1..Cardinality(DOMAIN m) -> DOMAIN m] : {q[i] : i \in DOMAIN q} = DOMAIN m}

RECURSIVE Pick(_, _, _)
Pick(q, idx, i) ==
    IF i > Len(q) THEN <<>>
    ELSE (IF i \in idx THEN << q[i] >> ELSE <<>>) \o Pick(q, idx, i + 1)

\* os/exec dedupEnv: of the entries with one name only the last is kept
dedupEnv(env) ==
    Pick(env,
         {i \in 1..Len(env) :
             \A j \in (i + 1)..Len(env) : EntryKey(env[j]) # EntryKey(env[i])},
         1)

\* os/exec Cmd.environ: a nil Env stands for the environment of the caller
ProcessEnviron(env, osEnv) == dedupEnv(IF env.nil THEN osEnv ELSE env.list)

\* What getenv gives a process with environment env for a name: << the
\* value of the first entry with that name >>, << >> when there is none.
Getenv(env, name) ==
    IF \E i \in 1..Len(env) : EntryKey(env[i]) = name
    THEN << EntryValue(env[CHOOSE i \in 1..Len(env) :
                               /\ EntryKey(env[i]) = name
                               /\ \A j \in 1..(i - 1) : EntryKey(env[j]) # name]) >>
    ELSE <<>>

\* The maps, environments, records and options the callers choose from.
Map1(k, v) == [x \in {k} |-> v]
MapChoices ==
    { EmptyMap,
      Map1(<< "a" >>, << "x" >>),
      [x \in {<< "a" >>, << "b" >>} |-> IF x = << "a" >> THEN << "y" >> ELSE << "=" >>] }

OsEnvironChoices ==
    { <<>>,
      << Entry(<< "p" >>, << "z" >>) >>,
      << Entry(<< "a" >>, << "z" >>), Entry(<< "p" >>, << "=", "z" >>) >> }

BaseChoices ==
    { ZeroOptions,
      [stdout |-> "file", stderr |-> "buf", stdin |-> "rdr", onExit |-> <<>>,
       envVars |-> Map1(<< "b" >>, << "w" >>), workingDir |-> "d0",
       noInheritEnv |-> TRUE] }

EnvOptChoices ==
    { Opt("WithStdout", "buf"),
      Opt("WithStdoutJSONDecoder", "json1"),
      Opt("WithStderr", "buf"),
      Opt("WithStdin", "rdr"),
      Opt("WithDir", "d1"),
      Opt("WithDir", ""),
      FlagOpt(TRUE),
      FlagOpt(FALSE),
      ExecOptions(<< FlagOpt(TRUE), EnvOpt(Map1(<< "a" >>, << "x" >>)) >>) }
    \cup {EnvOpt(m) : m \in MapChoices}

OptLists == UNION {[1..len -> EnvOptChoices] : len \in 0..MaxOpts}

InitOptions ==
    /\ InitExec
    /\ lim.stages = LongStages
    /\ IdleMake
    /\ IdleFiles
    /\ IdleRoot
    /\ osEnviron \in OsEnvironChoices
    /\ optsIn \in OptLists
    /\ coBase \in BaseChoices
    /\ co = coBase
    /\ coAt = 0
    /\ coAll = <<>>
    /\ cmdEnv = <<>>
    /\ procEnv = <<>>

\* The caller applies the next of o1, ..., on to the record.
ApplyNext ==
    /\ coAt < Len(optsIn)
    /\ co' = apply(optsIn[coAt + 1], co)
    /\ coAt' = coAt + 1
    /\ UNCHANGED << engine, make, filesys, root, osEnviron, optsIn, coBase, coAll, cmdEnv, procEnv >>

\* The caller applies ExecOptions(o1, ..., on) to the record (exec.go:86-92).
ApplyExecOptions ==
    /\ coAll = <<>>
    /\ coAll' = << apply(ExecOptions(optsIn), coBase) >>
    /\ UNCHANGED << engine, make, filesys, root, osEnviron, optsIn, coBase, co, coAt, cmdEnv, procEnv >>

\* ExecOpt with the option ExecOptions(o1, ..., on) (exec.go:128-149): the
\* options are applied to a zero record and execCmd.Env is built from it.
ExecOptEnv ==
    /\ cmdEnv = <<>>
    /\ LET o == apply(ExecOptions(optsIn), ZeroOptions)
       IN  \E order \in RangeOrders(o.envVars) :
               cmdEnv' = << Environ(o, osEnviron, order) >>
    /\ UNCHANGED << engine, make, filesys, root, osEnviron, optsIn, coBase, co, coAt, coAll, procEnv >>

\* cmd.Start of os/exec: the process gets its environment.
SpawnEnv ==
    /\ cmdEnv # <<>>
    /\ procEnv = <<>>
    /\ procEnv' = << ProcessEnviron(cmdEnv[1], osEnviron) >>
    /\ UNCHANGED << engine, make, filesys, root, osEnviron, optsIn, coBase, co, coAt, coAll, cmdEnv >>

NextOptions ==
    \/ ApplyNext
    \/ ApplyExecOptions
    \/ ExecOptEnv
    \/ SpawnEnv

SpecOptions == InitOptions /\ [][NextOptions]_vars

\* ---------------------------------------------------------------- makefile
\* Makefile and MakeTarget (targets.go).  A target is its Name, its Default
\* flag and its UpToDate, "nil" or "fn" (a function of the caller, whose
\* result is chosen when it is called); every target has a Body, whose
\* result is chosen when it returns.  Targets and names are referred to by
\* their position in mfTargets and depNames.
MaxTargets == 3     \* targets a caller passes to NewEx
MaxNames == 3       \* names a caller passes to Depend

Target(name, default, upToDate) ==
    [Name |-> name, Default |-> default, UpToDate |-> upToDate]

TargetChoices ==
    { Target("a", FALSE, "nil"),
      Target("A", FALSE, "fn"),
      Target("a", TRUE, "fn"),
      Target("b", TRUE, "fn"),
      Target("b", FALSE, "nil") }

NameChoices == {"a", "B", "x"}

\* what a Body returns: nil or one of two errors
BodyResults == {"nil", "e1", "e2"}

\* strings.ToLower, strings.EqualFold and strings.Compare on the names used
ToLower(s) == CASE s = "A" -> "a" [] s = "B" -> "b" [] OTHER -> s
EqualFold(s, t) == ToLower(s) = ToLower(t)
ByteRank(s) == CASE s = "A" -> 1 [] s = "B" -> 2 [] s = "a" -> 3 [] s = "b" -> 4 [] OTHER -> 5
Compare(s, t) == IF ByteRank(s) < ByteRank(t) THEN -1
                 ELSE IF ByteRank(s) > ByteRank(t) THEN 1 ELSE 0

\* normalize (targets.go:172-183): the targets whose lower-cased name did
\* not occur before, in order.
RECURSIVE SkipDuplicates(_, _)
SkipDuplicates(list, names) ==
    IF list = <<>> THEN <<>>
    ELSE IF ToLower(Head(list).Name) \in names THEN SkipDuplicates(Tail(list), names)
    ELSE << Head(list) >> \o SkipDuplicates(Tail(list), names \cup {ToLower(Head(list).Name)})

\* the comparison normalize sorts by (targets.go:184-192)
TargetCmp(a, b) ==
    IF a.Default THEN -1 ELSE IF b.Default THEN 1 ELSE Compare(a.Name, b.Name)

\* slices.SortFunc on a short slice is an insertion sort: element i moves
\* down while it compares less than the element before it.
RECURSIVE MoveDown(_, _)
MoveDown(q, j) ==
    IF j > 1 /\ TargetCmp(q[j], q[j - 1]) < 0
    THEN MoveDown([q EXCEPT ![j] = q[j - 1], ![j - 1] = q[j]], j - 1)
    ELSE q

RECURSIVE SortFrom(_, _)
SortFrom(q, i) == IF i > Len(q) THEN q ELSE SortFrom(MoveDown(q, i), i + 1)

\* a normalize that sorts and keeps the duplicates
normalizeKeepAll(list) == SortFrom(list, 2)

\* normalize (targets.go:171-201): the target list, and the position of the
\* default target.
normalize(list) == SortFrom(SkipDuplicates(list, {}), 2)

defaultTarget(targets) ==
    IF \E i \in 1..Len(targets) : targets[i].Default
    THEN CHOOSE i \in 1..Len(targets) :
             targets[i].Default /\ \A j \in 1..(i - 1) : ~targets[j].Default
    ELSE 1

\* Find (targets.go:86-93): the position of the first target with the name,
\* ignoring case; 0 for nil.
Find(targets, name) ==
    IF \E i \in 1..Len(targets) : EqualFold(targets[i].Name, name)
    THEN CHOOSE i \in 1..Len(targets) :
             /\ EqualFold(targets[i].Name, name)
             /\ \A j \in 1..(i - 1) : ~EqualFold(targets[j].Name, name)
    ELSE 0

TargetLists == UNION {[1..len -> TargetChoices] : len \in 1..MaxTargets}
NameLists == UNION {[1..len -> NameChoices] : len \in 0..MaxNames}

\* NewEx (targets.go:44-56)
InitMake ==
    /\ InitExec
    /\ lim.stages = LongStages
    /\ IdleOptions
    /\ IdleFiles
    /\ IdleRoot
    /\ mfGiven \in TargetLists
    /\ mfTargets = normalize(mfGiven)
    /\ depNames = <<>>
    /\ depTargets = <<>>
    /\ depAt = 0
    /\ depRes = <<>>
    /\ running = 0
    /\ mkLog = <<>>

\* a resolution that leaves out the names it does not find
RECURSIVE KnownTargets(_, _)
KnownTargets(targets, names) ==
    IF names = <<>> THEN <<>>
    ELSE (IF Find(targets, Head(names)) = 0 THEN <<>> ELSE << Find(targets, Head(names)) >>)
             \o KnownTargets(targets, Tail(names))

ResolveKnown(targets, names) ==
    [ok |-> KnownTargets(targets, names) # <<>>, targets |-> KnownTargets(targets, names)]

\* Depend's first loop (targets.go:67-75): every name is looked up with
\* Find; the first one not found ends Depend with an error.
Resolve(targets, names) ==
    IF \E i \in 1..Len(names) : Find(targets, names[i]) = 0
    THEN [ok |-> FALSE, targets |-> <<>>]
    ELSE [ok |-> TRUE, targets |-> [i \in 1..Len(names) |-> Find(targets, names[i])]]

\* Depend up to its loop over the targets (targets.go:63-75).
Depend(names) ==
    /\ depAt = 0
    /\ depRes = <<>>
    /\ depNames' = names
    /\ IF names = <<>>
       THEN /\ depRes' = << "nil" >>
            /\ UNCHANGED << depTargets, depAt >>
       ELSE IF ~Resolve(mfTargets, names).ok
       THEN /\ depRes' = << "unknown" >>
            /\ UNCHANGED << depTargets, depAt >>
       ELSE /\ depTargets' = Resolve(mfTargets, names).targets
            /\ depAt' = 1
            /\ depRes' = depRes
    /\ UNCHANGED << engine, options, filesys, root, mfGiven, mfTargets, running, mkLog >>

\* exec runs the Body whatever UpToDate says
ShouldRunAlways(t, up) == TRUE

\* mt.UpToDate == nil || !mt.UpToDate(mf) (targets.go:229)
ShouldRun(t, up) == t.UpToDate = "nil" \/ ~up

\* a loop that goes on to the next target whatever exec returned
AfterExecGoOn(pos, res) ==
    IF pos < Len(depTargets)
    THEN [at |-> pos + 1, res |-> <<>>]
    ELSE [at |-> pos, res |-> << "nil" >>]

\* Depend's loop after exec returned res for the target at pos
\* (targets.go:76-81): the error is returned at once, nil after the last.
AfterExec(pos, res) ==
    IF res # "nil" THEN [at |-> pos, res |-> << res >>]
    ELSE IF pos < Len(depTargets) THEN [at |-> pos + 1, res |-> <<>>]
    ELSE [at |-> pos, res |-> << "nil" >>]

\* tgt.exec up to the call of Body (targets.go:227-230, 236-237): UpToDate
\* is called if there is one; the Body is entered, or exec returns nil.
TargetExec ==
    /\ depAt >= 1
    /\ depRes = <<>>
    /\ running = 0
    /\ LET t == mfTargets[depTargets[depAt]]
       IN  \E up \in IF t.UpToDate = "nil" THEN {FALSE} ELSE BOOLEAN :
               LET run == ShouldRun(t, up)
                   ev == [pos |-> depAt, target |-> depTargets[depAt],
                          up |-> IF t.UpToDate = "nil" THEN "nil"
                                 ELSE IF up THEN "true" ELSE "false",
                          ran |-> run,
                          ret |-> IF run THEN "pending" ELSE "nil"]
               IN  /\ mkLog' = Append(mkLog, ev)
                   /\ IF run
                      THEN /\ running' = depTargets[depAt]
                           /\ UNCHANGED << depAt, depRes >>
                      ELSE /\ running' = 0
                           /\ depAt' = AfterExec(depAt, "nil").at
                           /\ depRes' = AfterExec(depAt, "nil").res
    /\ UNCHANGED << engine, options, filesys, root, mfGiven, mfTargets, depNames, depTargets >>

\* The Body returns, exec returns its result (targets.go:230-234) and
\* Depend's loop goes on or returns.
BodyReturn(res) ==
    /\ running # 0
    /\ running' = 0
    /\ mkLog' = [mkLog EXCEPT ![Len(mkLog)].ret = res]
    /\ depAt' = AfterExec(depAt, res).at
    /\ depRes' = AfterExec(depAt, res).res
    /\ UNCHANGED << engine, options, filesys, root, mfGiven, mfTargets, depNames, depTargets >>

NextMake ==
    \/ \E names \in NameLists : Depend(names)
    \/ TargetExec
    \/ \E res \in BodyResults : BodyReturn(res)

SpecMake == InitMake /\ [][NextMake]_vars

\* the targets given to NewEx and Add together
MaxGiven == 4

\* the argument lists of one call of Add
AddLists == UNION {[1..len -> TargetChoices] : len \in 1..2}

\* the command line NewEx was given (targets.go:49), read by RunE only:
\* no argument, a target name, or -help.
ArgChoices == {<<>>, << "a" >>, << "B" >>, << "x" >>, << "-help" >>}

\* Add (targets.go:96-101): the targets are appended to the normalized list
\* and the list is normalized again.
Add(tgts) ==
    /\ depAt = 0
    /\ depRes = <<>>
    /\ Len(mfGiven) + Len(tgts) <= MaxGiven
    /\ mfGiven' = mfGiven \o tgts
    /\ mfTargets' = normalize(mfTargets \o tgts)
    /\ UNCHANGED << engine, options, filesys, root, depNames, depTargets, depAt, depRes,
                    running, mkLog >>

\* runDefault (targets.go:135-137): the target at mf.defaultTarget
runDefault(targets) == defaultTarget(targets)

\* RunE up to the call of exec (targets.go:119-133).  depNames holds
\* mf.args; depTargets the one target RunE executes.
RunE(args) ==
    /\ depAt = 0
    /\ depRes = <<>>
    /\ depNames' = args
    /\ IF args = <<>>
       THEN /\ depTargets' = << runDefault(mfTargets) >>
            /\ depAt' = 1
            /\ depRes' = depRes
       ELSE IF args[1] = "-help"
       THEN /\ depRes' = << "nil" >>
            /\ UNCHANGED << depTargets, depAt >>
       ELSE IF Find(mfTargets, args[1]) = 0
       THEN /\ depRes' = << "unknown" >>
            /\ UNCHANGED << depTargets, depAt >>
       ELSE /\ depTargets' = << Find(mfTargets, args[1]) >>
            /\ depAt' = 1
            /\ depRes' = depRes
    /\ UNCHANGED << engine, options, filesys, root, mfGiven, mfTargets, running, mkLog >>

NextMakeRun ==
    \/ \E tgts \in AddLists : Add(tgts)
    \/ \E args \in ArgChoices : RunE(args)
    \/ TargetExec
    \/ \E res \in BodyResults : BodyReturn(res)

SpecMakeRun == InitMake /\ [][NextMakeRun]_vars

\* ------------------------------------------------------------------- files
\* The modification-time comparison of files.go.  mtime[f] is the
\* modification time of file f, Missing when there is no such file.
MaxTime == 3        \* latest modification time of a file

Sources == {"s1", "s2"}

\* the source lists a caller passes: none, one file, two files, a pattern
SourceChoices == { <<>>, << "s1" >>, << "s1", "s2" >>, << "s*" >> }

\* filepath.Glob (files.go:110): the files there are that match the pattern
Glob(pattern) ==
    IF pattern = "s*" THEN {f \in Sources : mtime[f] # Missing}
    ELSE {f \in {pattern} : mtime[f] # Missing}

\* modTime (files.go:130-136)
modTime(file) == IF mtime[file] = Missing THEN ZeroTime ELSE mtime[file]

\* LatestTimestamp (files.go:105-128): the latest modification time of the
\* matched files, the zero time when nothing matches.
LatestTimestamp(files) ==
    LET matched == UNION {Glob(files[i]) : i \in 1..Len(files)}
    IN  IF matched = {} THEN ZeroTime
        ELSE CHOOSE t \in {modTime(f) : f \in matched} :
                 \A f \in matched : modTime(f) <= t

\* TargetNeedsUpdate (files.go:140-144): b.After(a)
TargetNeedsUpdate(target, sources) ==
    LatestTimestamp(sources) > modTime(target)

\* the function FileUpToDate returns (targets.go:18-23)
FileUpToDate(target, sources) == ~TargetNeedsUpdate(target, sources)

InitFiles ==
    /\ InitExec
    /\ lim.stages = LongStages
    /\ IdleOptions
    /\ IdleMake
    /\ IdleRoot
    /\ mtime \in [Files -> {Missing} \cup 1..MaxTime]
    /\ upArgs = <<>>
    /\ upRes = <<>>

\* A target's UpToDate made by FileUpToDate("bin", sources...) is called.
CallFileUpToDate(sources) ==
    /\ upRes = <<>>
    /\ upArgs' = sources
    /\ upRes' = << FileUpToDate("bin", sources) >>
    /\ UNCHANGED << engine, options, make, root, mtime >>

NextFiles == \E sources \in SourceChoices : CallFileUpToDate(sources)

SpecFiles == InitFiles /\ [][NextFiles]_vars

\* ----------------------------------------------------------------- rebuild
\* GoRebuildYourself (root.go).  rp is the chain of processes of one run of
\* the build program: rp[1] is the process the user started, rp[i + 1] the
\* binary rp[i] started with runBinary.  A process is its name (the base
\* name of os.Args[0]: "gnob", or "other" when started by go run), whether
\* GNOB_REBUILD_DISABLE is set in its environment, where it is, and its exit
\* status.  The gnob binary is the file "bin"; a rebuilt binary has the
\* modification time Now.
MaxDepth == 3       \* processes in a chain of re-executions
Now == MaxTime + 1
\* the exit status of a go build or of a build program that failed
FailStatus == 2
\* no process exit status: the process runs, or the command could not start
NoStatus == -1

BinaryName == "gnob"

Proc(name, disable) ==
    [name |-> name, disable |-> disable, pc |-> "start", exit |-> NoStatus]

InitRoot ==
    /\ InitExec
    /\ lim.stages = LongStages
    /\ IdleOptions
    /\ IdleMake
    /\ mtime \in [Files -> {Missing} \cup 1..MaxTime]
    /\ upArgs = <<>>
    /\ upRes = <<>>
    /\ rbSources \in SourceChoices
    /\ \E name \in {BinaryName, "other"}, disable \in BOOLEAN :
           /\ name = BinaryName => mtime["bin"] # Missing
           /\ rp = << Proc(name, disable) >>
    /\ rbLog = <<>>

Top == Len(rp)

\* An error of RebuildYourself: st is the exit status of the failed
\* command (NoStatus if it did not start), as tells whether errors.As finds
\* the *exec.ExitError in the chain (wrapped with %w) or not (with %v).
Err(st, as) == [status |-> st, as |-> as /\ st # NoStatus]

\* GoRebuildYourself after RebuildYourself failed (root.go:37-44)
ExitStatusFor(err) == IF err.as THEN err.status ELSE 1

\* a runBinary that hands the binary the environment of the process as is
runBinaryInherit(chain) == Append(chain, Proc(BinaryName, chain[Len(chain)].disable))

\* runBinary (root.go:125-135): the binary is started with the environment
\* of the process and GNOB_REBUILD_DISABLE=1.
runBinary(chain) == Append(chain, Proc(BinaryName, TRUE))

\* RebuildYourself up to the first command it starts (root.go:50-93).
RebuildYourself ==
    /\ rp[Top].pc = "start"
    /\ LET p == rp[Top]
       IN  IF p.disable
           THEN rp' = [rp EXCEPT ![Top].pc = "logic"]
           ELSE IF p.name # BinaryName
           THEN IF mtime["bin"] = Missing
                THEN rp' = [rp EXCEPT ![Top].pc = "build"]
                ELSE \/ /\ Top < MaxDepth
                        /\ rp' = runBinary([rp EXCEPT ![Top].pc = "run"])
                     \/ rp' = [rp EXCEPT ![Top].pc = "exit",
                                         ![Top].exit = ExitStatusFor(Err(NoStatus, FALSE))]
           ELSE IF TargetNeedsUpdate("bin", rbSources)
                THEN rp' = [rp EXCEPT ![Top].pc = "build"]
                ELSE rp' = [rp EXCEPT ![Top].pc = "logic"]
    /\ rbLog' = rbLog
    /\ UNCHANGED << engine, options, make, filesys, rbSources >>

\* go build ends with status st (root.go:137-169), and RebuildYourself goes
\* on: under another name it returns what rebuild returned (root.go:67);
\* as the gnob binary it returns the error wrapped with %v, or runs the new
\* binary (root.go:85-90).
BuildDone(st) ==
    /\ rp[Top].pc = "build"
    /\ mtime' = IF st = 0 THEN [mtime EXCEPT !["bin"] = Now] ELSE mtime
    /\ rbLog' = IF st = 0 THEN Append(rbLog, "rebuild") ELSE rbLog
    /\ IF rp[Top].name # BinaryName
       THEN rp' = IF st = 0 THEN [rp EXCEPT ![Top].pc = "logic"]
                  ELSE [rp EXCEPT ![Top].pc = "exit",
                                  ![Top].exit = ExitStatusFor(Err(st, TRUE))]
       ELSE IF st # 0
       THEN rp' = [rp EXCEPT ![Top].pc = "exit",
                             ![Top].exit = ExitStatusFor(Err(st, FALSE))]
       ELSE \/ /\ Top < MaxDepth
               /\ rp' = runBinary([rp EXCEPT ![Top].pc = "run"])
            \/ rp' = [rp EXCEPT ![Top].pc = "exit",
                                ![Top].exit = ExitStatusFor(Err(NoStatus, FALSE))]
    /\ UNCHANGED << engine, options, make, upArgs, upRes, rbSources >>

\* RebuildYourself has returned nil: the build logic of the caller runs and
\* the process ends with status st.  If runBinary started the process, its
\* cmd.Run returns (root.go:134) and the parent exits with 0 or, on an error
\* wrapped with %v, as GoRebuildYourself decides (root.go:72-75, 88-91).
BuildLogic(st) ==
    /\ rp[Top].pc = "logic"
    /\ rbLog' = Append(rbLog, "logic")
    /\ rp' = [i \in 1..Top |->
                 IF i = Top THEN [rp[i] EXCEPT !.pc = "exit", !.exit = st]
                 ELSE IF i = Top - 1
                 THEN [rp[i] EXCEPT !.pc = "exit",
                                    !.exit = IF st = 0 THEN 0
                                             ELSE ExitStatusFor(Err(st, FALSE))]
                 ELSE rp[i]]
    /\ UNCHANGED << engine, options, make, filesys, rbSources >>

NextRoot ==
    \/ RebuildYourself
    \/ \E st \in {0, FailStatus} : BuildDone(st)
    \/ \E st \in {0, FailStatus} : BuildLogic(st)

SpecRoot == InitRoot /\ [][NextRoot]_vars

\* ------------------------------------------------------------------ claims
IsPrefix(p, q) == Len(p) <= Len(q) /\ \A i \in 1..Len(p) : p[i] = q[i]

\* The stages whose process was spawned.
Spawned == {spawnLog[i] : i \in 1..Len(spawnLog)}

\* C1: Start spawns the stages strictly head to tail: the i-th cmd.Start
\* that returns is the one of stage i, so stage k + 1 is never spawned before
\* the spawn call of stage k has returned.
C1_StartHeadToTail ==
    /\ \A i \in 1..Len(spawnLog) : spawnLog[i] = i
    /\ \A k \in 1..n : pstate[k] # "new" => \A j \in 1..k : j \in Spawned

C1_Witness == n = LongStages /\ Len(spawnLog) = n /\ api = "started"

\* C2: after a Wait that ran to completion under a context that is not
\* done, ExitCodes holds one entry per stage, head to tail, the k-th being
\* the exit status of stage k.
C2_ExitCodesPerStage ==
    (api = "waited" /\ ~ctxDone) =>
        /\ Len(ExitCodes) = n
        /\ \A k \in 1..n : ExitCodes[k] = status[k]

C2_Witness ==
    /\ api = "waited"
    /\ ~ctxDone
    /\ n = LongStages
    /\ status[1] = 1
    /\ status[2] = 0
    /\ status[n] = 1
    /\ ExitCodes = <<1, 0, 1>>

\* C9: when the spawn of stage k fails, Start returns that error, no stage
\* from k on is spawned, no stage is waited on or has a closer closed, a
\* spawned stage is terminated only by the context, and Run returns the
\* error without calling Wait.
C9_SpawnFailure ==
    startRes = "spawn" =>
        /\ api = "startfailed"
        /\ RunRes = "spawn"
        /\ waitRes = "none"
        /\ \A j \in Stages :
            /\ j > Len(spawnLog) => pstate[j] = "new"
            /\ worker[j] = "none"
            /\ closes[j] = NoCloses
            /\ pstate[j] = "killed" => ctxDone

C9_Witness ==
    /\ startRes = "spawn"
    /\ n = LongStages
    /\ Len(spawnLog) = 1
    /\ pstate[1] = "running"
    /\ own[1] = 1
    /\ pstate[2] = "new"
    /\ pstate[3] = "new"

OptWriter(k, s) ==
    LET o == apply(given[k], ZeroOptions)
    IN  IF s = "out" THEN o.stdout ELSE o.stderr

\* Stage k has a destination for stream s and was linked on that stream.
Teed(k, s) == k < n /\ LinkOf(k) = s /\ OptWriter(k, s) # "nil"

\* The ids of the onExit callbacks that ran for stage k, in the order run.
RanOnExit(k) ==
    LET q == SelectSeq(exitLog, LAMBDA e : e[1] = k)
    IN  [i \in 1..Len(q) |-> q[i][2]]

\* C3 as claimed: after a Wait that ran to completion under a context that is
\* not done, Wait's error is non-nil exactly when some stage's exit status
\* is not 0.
C3_ErrorIffNonZeroStatus ==
    (api = "waited" /\ ~ctxDone) =>
        ((waitRes = "failed") <=> (\E k \in 1..n : status[k] # 0))

\* C4 as claimed: when Wait has completed, the buffer a piped stage's stdout
\* was captured into holds exactly the bytes the successor received.
C4_Original ==
    api = "waited" =>
        \A k \in 1..n : Teed(k, "out") => sink[k]["out"] = recv[k + 1]

\* C4 as amended: when Wait has completed, the bytes the successor received
\* are the beginning of the captured buffer, byte for byte and in order, and
\* are all of it when the successor read its stdin to the end.
C4_TeeInvariant ==
    api = "waited" =>
        \A k \in 1..n : Teed(k, "out") =>
            /\ IsPrefix(recv[k + 1], sink[k]["out"])
            /\ ~early[k + 1] => sink[k]["out"] = recv[k + 1]

C4_Witness ==
    /\ api = "waited"
    /\ Teed(1, "out")
    /\ ~early[2]
    /\ Len(recv[2]) = OutLen
    /\ sink[1]["out"] = recv[2]
    /\ recv[2] = OwnData(1)

\* C5 as claimed: after a Wait that ran to completion under a context that
\* is not done, the destination the caller set on the linked stream of a
\* stage holds every byte the stage wrote to it.
C5_CaptureComplete ==
    (api = "waited" /\ ~ctxDone) =>
        \A k \in 1..n, s \in Streams : Teed(k, s) => sink[k][s] = wrote[k]

\* C6 as claimed: under a context that is not done, a successor that read
\* its stdin to the end has received exactly the bytes its predecessor wrote,
\* over a direct link and over a tee link alike.
C6_SuccessorReceivesAll ==
    (api = "waited" /\ ~ctxDone) =>
        \A k \in 1..n : (k < n /\ ~early[k + 1]) => recv[k + 1] = wrote[k]

\* C7 as claimed: a Wait that ran to completion under a context that is not
\* done has run the onExit callbacks registered for every stage, in
\* registration order.
C7_OnExitOfEveryStage ==
    (api = "waited" /\ ~ctxDone) =>
        \A k \in 1..n : RanOnExit(k) = apply(given[k], ZeroOptions).onExit

\* C8 as claimed: when the onExit callback of a JSON decoder of a stage
\* linked by Pipe parses the decoder's buffer, the buffer holds every byte
\* the stage wrote to stdout.
C8_DecoderSeesAllOutput ==
    \A i \in 1..Len(exitLog) :
        LET k == exitLog[i][1]
        IN  (Teed(k, "out") /\ OptWriter(k, "out") = exitLog[i][2])
                => exitLog[i][3] = wrote[k]

\* The stages Wait has not collected: the one its loop is at and the later
\* ones.
Uncollected == {WaitOrder(ChainOf(n))[i] : i \in wi..n}

\* C11: when the context is done while Wait is blocked in its select on the
\* worker of stage k, which has delivered nothing, the select takes the
\* ctx.Done case: the only step Wait takes is to return the context's error,
\* no result of stage k or of a later stage is received, none of their
\* onExit callbacks runs and no exit code is recorded.
C11_CancelWhileBlocked ==
    sel = "ctx" =>
        /\ api \in {"waiting", "cancelled"}
        /\ api = "waiting" => (ENABLED WaitCtxDone /\ ~ENABLED WaitRecv)
        /\ api = "cancelled" => waitRes = "ctx"
        /\ Len(codes) = wi - 1
        /\ ExitCodes = <<>>
        /\ \A j \in Uncollected : worker[j] # "recv" /\ RanOnExit(j) = <<>>

C11_Witness ==
    /\ sel = "ctx"
    /\ api = "cancelled"
    /\ waitRes = "ctx"
    /\ n = MaxStages
    /\ wi = 1
    /\ h[1].onExit # <<>>
    /\ worker[1] = "sent"
    /\ pstate[2] = "running"

\* C12 as claimed: a done context never ends a process: no process of the
\* chain is ever killed on behalf of the context.
C12_CancelNeverKills == \A k \in Stages : pstate[k] # "killed"

\* C13: when the context is done before Start has spawned anything, no
\* process is ever spawned, the only step Start takes is to return the
\* context's error, Wait is not called, and Run returns a non-nil error.
C13_PreCancelledRunFails ==
    (ctxDone /\ spawnLog = <<>> /\ api # "build") =>
        /\ api \in {"starting", "startfailed"}
        /\ api = "starting" => (ENABLED StartCtxDone /\ ~ENABLED StartSpawn)
        /\ api = "startfailed" => RunRes \in {"ctx", "spawn"}
        /\ waitRes = "none"
        /\ \A k \in Stages : pstate[k] = "new"

C13_Witness ==
    /\ ctxDone
    /\ n = MaxStages
    /\ api = "startfailed"
    /\ startRes = "ctx"
    /\ RunRes = "ctx"
    /\ spawnLog = <<>>
    /\ pstate[1] = "new"

\* C14 as claimed: when the context became done while a process of the chain
\* was running, a Wait that ran to completion returned a non-nil error (a
\* Wait cut short returns the context's error).
C14_DeadlineFailsRun ==
    (liveAtDone /\ api = "waited") => waitRes = "failed"

\* Start has returned nil.
Started == api \in {"started", "waiting", "waited", "cancelled"}

\* C15 as claimed: once Start has returned nil, the stderr of every stage
\* that is not linked to a successor on stderr is wired to the internal
\* buffer: the buffer alone when the caller gave the stage no stderr, the
\* buffer and the caller's destination when it gave one.
C15_StderrOfEveryStage ==
    Started =>
        \A k \in 1..n :
            LinkOf(k) # "err" => h[k].cmd.Stderr = StartStderr(OptWriter(k, "err"))

\* C16 as claimed: a closer of a stage is closed only when the process of
\* the stage has ended.
C16_ClosersAfterExit ==
    \A k \in 1..n, c \in DOMAIN NoCloses :
        closes[k][c] > 0 => pstate[k] \in {"exited", "killed"}

\* The closers of the list that are named c.
Owned(list, c) == Len(SelectSeq(list, LAMBDA x : x = c))

\* C17 as claimed: for every tee link the predecessor's handle owns the
\* pipe's write end and the successor's handle its read end, and after a
\* completed Wait each of the two ends was closed exactly once.
C17_PipeEndsClosedOnce ==
    \A k \in 1..n, s \in Streams :
        Teed(k, s) =>
            /\ Owned(h[k].closers, "pw") = 1
            /\ Owned(h[k + 1].closers, "pr") = 1
            /\ api = "waited" => (closes[k].pw = 1 /\ closes[k + 1].pr = 1)

\* C18 as claimed: no process is spawned twice, and no stage is collected
\* twice: no closer is closed more than once and no onExit callback runs
\* more than once.
C18_RunAtMostOnce ==
    /\ \A i, j \in 1..Len(spawnLog) : spawnLog[i] = spawnLog[j] => i = j
    /\ \A k \in 1..n :
        /\ \A c \in DOMAIN NoCloses : closes[k][c] <= 1
        /\ Len(RanOnExit(k)) <= Len(h[k].onExit)

\* C19: Wait collects the stages head to tail, one at a time: a worker of a
\* stage exists, and closers of the stage are closed, only when the result
\* of every stage before it was received and the onExit callbacks of that
\* stage have run; at most one worker has a result outstanding.
C19_WaitOneAtATime ==
    /\ \A k \in 1..n :
        (worker[k] # "none" \/ closes[k] # NoCloses) =>
            \A j \in 1..(k - 1) :
                worker[j] = "recv" /\ RanOnExit(j) = h[j].onExit
    /\ Cardinality({k \in 1..n : worker[k] \in {"wait", "sent"}}) <= 1

\* The wait on the head has resolved and its callback has run while the
\* stages after it are still running.
C19_Witness ==
    /\ n = LongStages
    /\ api = "waiting"
    /\ worker[1] = "recv"
    /\ RanOnExit(1) = <<"json1">>
    /\ worker[2] = "wait"
    /\ worker[3] = "none"
    /\ pstate[2] = "running"
    /\ pstate[3] = "running"

\* The reader the caller's option set as stdin of stage k.
OptReader(k) == apply(given[k], ZeroOptions).stdin

\* C20: the stdin of a stage has one source.  The stdin of a stage made by
\* PipeOpt or Pipe2Opt is the link from its predecessor, also when the
\* stage's options name a reader: every byte the stage reads is a byte its
\* predecessor wrote, in order.  The stdin of a head is the reader of its
\* options, or nothing.
C20_StdinSingleSource ==
    /\ \A k \in 2..n :
        /\ h[k].cmd.Stdin.kind \in {"pipe", "tee"}
        /\ IsPrefix(recv[k], wrote[k - 1])
    /\ n >= 1 =>
        /\ h[1].cmd.Stdin.kind = OptReader(1)
        /\ IsPrefix(recv[1], IF OptReader(1) = "rdr" THEN ReaderData ELSE <<>>)

C20_Witness ==
    /\ n = MaxStages
    /\ OptReader(2) = "rdr"
    /\ h[2].cmd.Stdin.kind = "pipe"
    /\ api = "waited"
    /\ recv[2] = wrote[1]
    /\ Len(recv[2]) = OutLen

\* C21: when Wait completes, it returns nil if the wait on every stage gave
\* nil; otherwise it returns an error that holds the error of every stage
\* whose wait gave one, in chain order and nothing else, names the command of
\* the tail and carries all the tail wrote to its stderr.
C21_AggregateError ==
    api = "waited" =>
        IF \A k \in 1..n : errCh[k] = "nil"
        THEN waitRes = "nil" /\ failure = NoFailure
        ELSE /\ waitRes = "failed"
             /\ failure.args = n
             /\ failure.stderr = wrote[n]
             /\ \A k \in 1..n :
                    errCh[k] # "nil" =>
                        \E i \in 1..Len(failure.errs) : failure.errs[i] = << k, errCh[k] >>
             /\ \A i \in 1..Len(failure.errs) :
                    errCh[failure.errs[i][1]] = failure.errs[i][2]

C21_Witness ==
    /\ api = "waited"
    /\ n = LongStages
    /\ failure.errs = << << 1, "exit" >>, << 2, "io" >>, << 3, "exit" >> >>
    /\ failure.args = n
    /\ failure.stderr # <<>>

\* The record ExecOpt builds from the options of the caller.
BuiltOptions == apply(ExecOptions(optsIn), ZeroOptions)

EntrySet(env) == {env[i] : i \in 1..Len(env)}

\* C22: with noInheritEnv = true the environment of the spawned process is
\* exactly the entries KEY=VALUE of envVars, one per key, and nothing of the
\* caller's environment; with no envVars it is empty.
C22_NoInheritEnv ==
    (procEnv # <<>> /\ BuiltOptions.noInheritEnv) =>
        LET env == procEnv[1]
            m == BuiltOptions.envVars
        IN  /\ EntrySet(env) = {Entry(k, m[k]) : k \in DOMAIN m}
            /\ Len(env) = Cardinality(DOMAIN m)
            /\ DOMAIN m = {} => env = <<>>

\* A caller with a non-empty environment spawned a process with no envVars
\* and noInheritEnv = true.
C22_Witness ==
    /\ procEnv = << <<>> >>
    /\ BuiltOptions.noInheritEnv
    /\ DOMAIN BuiltOptions.envVars = {}
    /\ Len(osEnviron) = 2

\* C23: with noInheritEnv = false the spawned process sees every variable of
\* the caller's environment and every entry of envVars; a name in envVars
\* has the value of envVars, every other name the value the caller sees.
C23_InheritEnv ==
    (procEnv # <<>> /\ ~BuiltOptions.noInheritEnv) =>
        LET env == procEnv[1]
            m == BuiltOptions.envVars
        IN  /\ \A k \in DOMAIN m : Getenv(env, k) = << m[k] >>
            /\ \A i \in 1..Len(osEnviron) :
                   LET name == EntryKey(osEnviron[i])
                   IN  /\ Getenv(env, name) # <<>>
                       /\ name \notin DOMAIN m =>
                              Getenv(env, name) = Getenv(osEnviron, name)

\* The caller's environment sets a and p, envVars sets a and b: the process
\* sees a and b of envVars and p of the caller.
C23_Witness ==
    /\ procEnv # <<>>
    /\ ~BuiltOptions.noInheritEnv
    /\ Getenv(osEnviron, << "a" >>) = << << "z" >> >>
    /\ Getenv(procEnv[1], << "a" >>) = << << "y" >> >>
    /\ Getenv(procEnv[1], << "b" >>) = << << "=" >> >>
    /\ Getenv(procEnv[1], << "p" >>) = << << "=", "z" >> >>

\* The options of a list that are not ExecOptions, in the order of the list.
RECURSIVE Leaves(_)
Leaves(list) ==
    IF list = <<>> THEN <<>>
    ELSE (IF Head(list).op = "ExecOptions" THEN Leaves(Head(list).list)
          ELSE << Head(list) >>) \o Leaves(Tail(list))

\* The position of the last option of lv made by one of ops, 0 if none is.
LastOf(lv, ops) ==
    LET S == {i \in 1..Len(lv) : lv[i].op \in ops}
    IN  IF S = {} THEN 0 ELSE CHOOSE i \in S : \A j \in S : j <= i

\* The position of the last WithEnvVars of lv that writes key k, 0 if none.
LastWrite(lv, k) ==
    LET S == {i \in 1..Len(lv) : lv[i].op = "WithEnvVars" /\ k \in DOMAIN lv[i].env}
    IN  IF S = {} THEN 0 ELSE CHOOSE i \in S : \A j \in S : j <= i

\* C24: applying ExecOptions(o1, ..., on) to a record gives the record that
\* applying o1, ..., on one after another gives; each of stdout, stderr,
\* stdin, workingDir and noInheritEnv has the value of the last option that
\* sets it (the record's own value if none does), and envVars holds the keys
\* of the record and of every WithEnvVars, each with the last value written.
C24_OptionsCompose ==
    (coAll # <<>> /\ coAt = Len(optsIn)) =>
        LET lv == Leaves(optsIn)
            so == LastOf(lv, {"WithStdout", "WithStdoutJSONDecoder"})
            se == LastOf(lv, {"WithStderr"})
            sn == LastOf(lv, {"WithStdin"})
            sd == LastOf(lv, {"WithDir"})
            sf == LastOf(lv, {"WithNoInheritEnv"})
        IN  /\ coAll[1] = co
            /\ co.stdout = IF so = 0 THEN coBase.stdout ELSE lv[so].arg
            /\ co.stderr = IF se = 0 THEN coBase.stderr ELSE lv[se].arg
            /\ co.stdin = IF sn = 0 THEN coBase.stdin ELSE lv[sn].arg
            /\ co.workingDir = IF sd = 0 THEN coBase.workingDir ELSE lv[sd].arg
            /\ co.noInheritEnv = IF sf = 0 THEN coBase.noInheritEnv ELSE lv[sf].flag
            /\ DOMAIN co.envVars =
                   DOMAIN coBase.envVars \cup
                   UNION {DOMAIN lv[i].env : i \in {j \in 1..Len(lv) : lv[j].op = "WithEnvVars"}}
            /\ \A k \in DOMAIN co.envVars :
                   co.envVars[k] = IF LastWrite(lv, k) = 0 THEN coBase.envVars[k]
                                   ELSE lv[LastWrite(lv, k)].env[k]

\* Three options, one of them an ExecOptions, were applied to a record that
\* had every field set: two of them write key a, two set noInheritEnv.
C24_Witness ==
    /\ coAll # <<>>
    /\ coAt = MaxOpts
    /\ coBase # ZeroOptions
    /\ optsIn[2].op = "ExecOptions"
    /\ optsIn[3] = FlagOpt(FALSE)
    /\ co.envVars = [x \in {<< "a" >>, << "b" >>} |->
                        IF x = << "a" >> THEN << "x" >> ELSE << "=" >>]
    /\ co.noInheritEnv = FALSE
    /\ coAll[1].workingDir = "d0"

\* The tokens of stages k, k - 1, ..., 1, one after another.
RECURSIVE TokensFrom(_)
TokensFrom(k) == IF k = 0 THEN <<>> ELSE OwnData(k) \o TokensFrom(k - 1)

\* A chain linked on stdout whose processes all ran to the end of their
\* input, whose head has no input and whose tail has its stdout captured.
TokenChain ==
    /\ n >= 1
    /\ \A k \in 1..n : ~early[k]
    /\ \A k \in 1..(n - 1) : LinkOf(k) = "out"
    /\ OptReader(1) = "nil"
    /\ OptWriter(n, "out") # "nil"

\* C25 as claimed: when Wait on such a chain has completed under a context
\* that is not done, the captured stdout of the tail is the token of stage
\* n, then that of stage n - 1, ..., then that of stage 1.
C25_TokensReversed ==
    (api = "waited" /\ ~ctxDone /\ TokenChain) => sink[n]["out"] = TokensFrom(n)

\* C25 for the chains whose stages before the tail have no stdout
\* destination (every link is an OS pipe between the two processes).
C25_DirectLinks ==
    (api = "waited" /\ ~ctxDone /\ TokenChain
        /\ \A k \in 1..(n - 1) : OptWriter(k, "out") = "nil")
    => sink[n]["out"] = TokensFrom(n)

\* A chain of LongStages stages linked by OS pipes, run to completion.
C25_Witness ==
    /\ api = "waited"
    /\ TokenChain
    /\ n = LongStages
    /\ \A k \in 1..(n - 1) : OptWriter(k, "out") = "nil"
    /\ sink[n]["out"] = << 31, 21, 11, 12 >>

\* An onExit callback of stage k ran and its json.Unmarshal failed.
DecodeFailed(k) ==
    \E i \in 1..Len(exitLog) :
        exitLog[i][1] = k /\ Unmarshal(k, exitLog[i][3]) # "nil"

\* The position of stage k in the order Wait collects the stages.
PosOf(k) == CHOOSE i \in 1..n : WaitOrder(ChainOf(n))[i] = k

\* C26: a failed JSON decode in an onExit callback of stage k is not
\* surfaced.  The error and the exit code Wait records for stage k are those
\* of the wait on its process; Wait goes on to the stage after k, whose
\* worker it starts; and a Wait that completes has collected every stage and
\* returns an error exactly when the wait on some stage gave one.
C26_DecodeFailureSwallowed ==
    \A k \in 1..n :
        DecodeFailed(k) =>
            /\ waitErrs[PosOf(k)] = errCh[k]
            /\ codes[PosOf(k)] = ExitCodeFor(errCh[k], k)
            /\ api \in {"waiting", "waited", "cancelled"}
            /\ PosOf(k) < n => (wi > PosOf(k) /\ worker[Collecting] # "none")
            /\ api = "waited" =>
                   /\ Len(codes) = n
                   /\ \A j \in 1..n : worker[j] = "recv"
                   /\ waitRes = IF \E j \in 1..n : errCh[j] # "nil"
                                THEN "failed" ELSE "nil"

\* The decoder of the head of a 3-stage chain failed on its buffer, and
\* Wait returned nil with exit code 0 for each of the three stages.
C26_Witness ==
    /\ n = LongStages
    /\ DecodeFailed(1)
    /\ api = "waited"
    /\ waitRes = "nil"
    /\ ExitCodes = << 0, 0, 0 >>

\* C27: Depend calls exec on the named targets one at a time in the order
\* of the names; a call is made only after every earlier one returned nil;
\* when a target returns an error Depend returns that error and calls no
\* later target; it returns nil only after all of them returned nil.
C27_DependInOrder ==
    /\ \A i \in 1..Len(mkLog) :
           /\ mkLog[i].pos = i
           /\ mkLog[i].target = Find(mfTargets, depNames[i])
           /\ i < Len(mkLog) => mkLog[i].ret = "nil"
    /\ running # 0 =>
           /\ mkLog[Len(mkLog)].ret = "pending"
           /\ mkLog[Len(mkLog)].target = running
    /\ \A e \in {"e1", "e2"} :
           depRes = << e >> <=> (mkLog # <<>> /\ mkLog[Len(mkLog)].ret = e)
    /\ depRes = << "nil" >> =>
           /\ Len(mkLog) = Len(depNames)
           /\ \A i \in 1..Len(mkLog) : mkLog[i].ret = "nil"

\* Of three names the first target returned nil and the second an error:
\* Depend returned it and the third target was not executed.
C27_Witness ==
    /\ Len(depNames) = MaxNames
    /\ depRes = << "e2" >>
    /\ Len(mkLog) = 2
    /\ mkLog[1].ran
    /\ mkLog[1].ret = "nil"
    /\ mkLog[2].ret = "e2"

\* C28: exec enters the Body exactly when the target has no UpToDate or
\* UpToDate returned false; when UpToDate returned true exec returns nil
\* and the Body is not entered.
C28_BodyIffNotUpToDate ==
    /\ \A i \in 1..Len(mkLog) :
           /\ mkLog[i].ran <=> mkLog[i].up \in {"nil", "false"}
           /\ mkLog[i].up = "true" => mkLog[i].ret = "nil"
           /\ mkLog[i].up = "nil" <=> mfTargets[mkLog[i].target].UpToDate = "nil"
    /\ running # 0 => mkLog[Len(mkLog)].ran

\* One Depend executed a target without UpToDate, one whose UpToDate gave
\* true and one whose UpToDate gave false.
C28_Witness ==
    /\ Len(mkLog) = MaxNames
    /\ mkLog[1].up = "nil" /\ mkLog[1].ran
    /\ mkLog[2].up = "true" /\ ~mkLog[2].ran /\ mkLog[2].ret = "nil"
    /\ mkLog[3].up = "false" /\ mkLog[3].ran /\ mkLog[3].ret = "e1"

\* The files matched by the sources the FileUpToDate function was made with.
Matched == UNION {Glob(upArgs[i]) : i \in 1..Len(upArgs)}

\* C29 as claimed: the function FileUpToDate returns reports the target up
\* to date exactly when the target file exists and its modification time is
\* strictly later than that of every matched source.
C29_FileUpToDate ==
    upRes # <<>> =>
        (upRes[1] <=> /\ mtime["bin"] # Missing
                      /\ \A f \in Matched : mtime["bin"] > mtime[f])

\* C29 as coded: the target is reported up to date exactly when no matched
\* source is strictly later than the target, a missing target counting as
\* the zero time.
C29_NoSourceLater ==
    upRes # <<>> =>
        (upRes[1] <=> \A f \in Matched : mtime[f] <= modTime("bin"))

\* The target file does not exist, no source matches, and the target is
\* reported up to date.
C29_Witness ==
    /\ upRes = << TRUE >>
    /\ upArgs = << "s*" >>
    /\ mtime["bin"] = Missing
    /\ Matched = {}

\* The caller's build logic ran and no rebuild came before it.
LogicWithoutRebuild == rbLog # <<>> /\ rbLog[1] = "logic"

\* C30 as claimed: in a run started without GNOB_REBUILD_DISABLE, under
\* whatever name, the build logic does not run without a rebuild before it
\* while a file matching the sources is newer than the gnob binary.
C30_RebuildBeforeLogic ==
    (~rp[1].disable /\ LogicWithoutRebuild) => ~TargetNeedsUpdate("bin", rbSources)

\* C30 for the runs started as the gnob binary itself.
C30_StartedAsGnob ==
    (~rp[1].disable /\ rp[1].name = BinaryName /\ LogicWithoutRebuild)
        => ~TargetNeedsUpdate("bin", rbSources)

\* Started as the gnob binary with a newer source: the binary was rebuilt
\* and then run, and the build logic ran in it.
C30_Witness ==
    /\ rp[1].name = BinaryName
    /\ ~rp[1].disable
    /\ mtime["s1"] = MaxTime
    /\ mtime["bin"] = Now
    /\ Len(rp) = 2
    /\ rbLog = << "rebuild", "logic" >>

\* The errors of cmd.Wait that are not an exit status.
OtherFailures == {"io", "ctx", "already"}

FirstGiven(name) ==
    CHOOSE i \in 1..Len(mfGiven) :
        /\ EqualFold(mfGiven[i].Name, name)
        /\ \A j \in 1..(i - 1) : ~EqualFold(mfGiven[j].Name, name)

C32_NormalizedDefault ==
    /\ \A i, j \in 1..Len(mfTargets) :
           i # j => ~EqualFold(mfTargets[i].Name, mfTargets[j].Name)
    /\ \A i \in 1..Len(mfGiven) : Find(mfTargets, mfGiven[i].Name) # 0
    /\ \A i \in 1..Len(mfTargets) : mfTargets[i] = mfGiven[FirstGiven(mfTargets[i].Name)]
    /\ (\E i \in 1..Len(mfTargets) : mfTargets[i].Default)
           => mfTargets[defaultTarget(mfTargets)].Default
    /\ (depNames = <<>> /\ mkLog # <<>>) =>
           /\ Len(mkLog) = 1
           /\ mkLog[1].target = defaultTarget(mfTargets)
           /\ (\E i \in 1..Len(mfTargets) : mfTargets[i].Default)
                  => mfTargets[mkLog[1].target].Default

\* Add dropped a duplicate of another case and moved a Default target to the
\* front; RunE with no arguments ran it to the end.
C32_Witness ==
    /\ Len(mfGiven) = 4
    /\ mfGiven[1].Name = "a" /\ ~mfGiven[1].Default
    /\ mfGiven[2].Name = "A"
    /\ mfGiven[4].Name = "b" /\ mfGiven[4].Default
    /\ Len(mfTargets) = 2
    /\ mfTargets[1] = mfGiven[4]
    /\ mfTargets[2] = mfGiven[1]
    /\ depNames = <<>>
    /\ Len(mkLog) = 1 /\ mkLog[1].target = 1 /\ mkLog[1].ran
    /\ depRes = << "nil" >>


\* C33: when a name passed to Depend matches no target, Depend returns the
\* unknown-target error and no target is executed, not even one whose name
\* comes before the unknown one.
C33_UnknownRunsNothing ==
    (\E i \in 1..Len(depNames) : Find(mfTargets, depNames[i]) = 0) =>
        /\ depRes = << "unknown" >>
        /\ depAt = 0
        /\ running = 0
        /\ mkLog = <<>>

\* Depend("a", "x") on a Makefile with a target a and no target x
C33_Witness ==
    /\ depNames = << "a", "x" >>
    /\ Find(mfTargets, "a") # 0
    /\ Find(mfTargets, "x") = 0
    /\ depRes = << "unknown" >>
    /\ mkLog = <<>>


\* C37 as claimed: once a Wait has completed, no later step of a Start, Wait
\* or Run on the same handle changes what ExitCodes and ExitCode return.
WaitCompleted == waits >= 1 /\ (api = "waited" \/ waits >= 2)

C37_ExitCodesStable ==
    [][WaitCompleted => (ExitCodes' = ExitCodes /\ ExitCode' = ExitCode)]_vars

\* A single command that exited with status 1 and was waited for twice: the
\* second Wait replaced the code 1 by 0.
C37_Witness ==
    /\ n = 1
    /\ waits = 2
    /\ api = "waited"
    /\ status[1] = 1
    /\ errCh[1] = "already"
    /\ ExitCodes = << 0 >>
    /\ ExitCode = 0

\* What holds: a second Start changes nothing, and the codes stay as they
\* are until a later Wait completes.
C37_StableUntilWaitCompletes ==
    [][(WaitCompleted /\ ~(api = "waiting" /\ api' = "waited"))
           => (ExitCodes' = ExitCodes /\ ExitCode' = ExitCode)]_vars


\* C38: every process started by runBinary has GNOB_REBUILD_DISABLE set, and
\* a process that has it set goes from RebuildYourself to its build logic
\* without building or running a binary; so a chain of re-executions has at
\* most two processes and every process that has nothing left to wait for
\* can take a step until it has exited.
C38_ReexecDepthOne ==
    /\ \A i \in 2..Len(rp) : rp[i].disable
    /\ \A i \in 1..Len(rp) :
           rp[i].disable => (i = Len(rp) /\ rp[i].pc \in {"start", "logic", "exit"})
    /\ Len(rp) <= 2
    /\ (\A i \in 1..Len(rp) : rp[i].pc = "exit") \/ ENABLED NextRoot

\* go run started the build program, which ran the gnob binary; the binary
\* ran its build logic without rebuilding and both have exited.
C38_Witness ==
    /\ Len(rp) = 2
    /\ ~rp[1].disable /\ rp[1].pc = "exit"
    /\ rp[2].disable /\ rp[2].pc = "exit"
    /\ rbLog = << "logic" >>


\* C39 as claimed: when go build fails with an exit status, or the binary
\* run by runBinary ends with a non-zero exit status, the process exits with
\* that status.
C39_ExitStatusOfFailure ==
    [][/\ BuildDone(FailStatus) => rp'[Top].exit = FailStatus
       /\ (BuildLogic(FailStatus) /\ Top > 1) => rp'[Top - 1].exit = FailStatus]_vars

\* The build program, started by go run, ran the gnob binary; the binary
\* exited with status 2 and the build program with status 1.
C39_Witness ==
    /\ Len(rp) = 2
    /\ rp[1].name # BinaryName
    /\ rp[2].pc = "exit" /\ rp[2].exit = FailStatus
    /\ rp[1].pc = "exit" /\ rp[1].exit = 1

\* What holds: the status of a failed go build is the exit status only
\* where rebuild's error is returned as it is, for a build program not
\* running as the gnob binary whose binary is missing; every other failure
\* of a command ends the process with status 1.
C39_StatusOnlyOfFirstBuild ==
    [][/\ BuildDone(FailStatus) =>
              rp'[Top].exit = IF rp[Top].name # BinaryName THEN FailStatus ELSE 1
       /\ (BuildLogic(FailStatus) /\ Top > 1) => rp'[Top - 1].exit = 1]_vars


\* C34 as claimed: when the context is never done and no process exits
\* before it has read its input to the end, a Wait on a successfully started
\* chain returns, whatever the links of the chain are.
C34_WaitReturns ==
    api = "waiting" ~> (api = "waited" \/ ctxDone \/ \E k \in 1..n : early[k])

\* The head's destination is a file and its stdout is tee-linked: Wait's
\* worker closed the file, the copy from the pipe ended at the failed write,
\* the successor exited at the end of its input, and the head is blocked
\* writing into the full pipe, whose read end stays open.  Nothing can run.
C34_Witness ==
    /\ api = "waiting" /\ ~ctxDone
    /\ \A k \in 1..n : ~early[k]
    /\ h[2].cmd.Stdin.kind = "tee"
    /\ closes[1].dst = 1 /\ copier[2] = "err"
    /\ pstate[1] = "running" /\ own[1] < OwnLen(1) /\ Len(pipe[1]) = PipeCap
    /\ pstate[2] = "exited"
    /\ ~ENABLED Scheduled

\* What holds: the Wait returns in these runs unless the destination of a
\* tee link was closed under it.
C34_WaitReturnsUnlessClosed ==
    api = "waiting" ~> \/ api = "waited" \/ ctxDone
                       \/ \E k \in 1..n : early[k] \/ copier[k] = "err"

\* C35 as claimed: in a tee-linked pair where the successor exits before it
\* has read its input to the end, the Wait returns if the context is never
\* done.
TeePair == n = 2 /\ h[2].cmd.Stdin.kind = "tee"

C35_TeeEarlyExitReturns ==
    (api = "waiting" /\ TeePair /\ early[2]) ~> (api = "waited" \/ ctxDone)

\* The successor of a tee link exited early; the copy from the pipe ended at
\* the failed write to its stdin; the head is blocked writing into the full
\* pipe and Wait is parked on the head.  Nothing can run.
C35_Witness ==
    /\ api = "waiting" /\ ~ctxDone /\ TeePair
    /\ pstate[2] = "exited" /\ early[2]
    /\ copier[2] = "epipe"
    /\ pstate[1] = "running" /\ own[1] < OwnLen(1) /\ Len(pipe[1]) = PipeCap
    /\ worker[1] = "wait" /\ sel = "parked"
    /\ ~ENABLED Scheduled

\* The same with a direct link: the parent keeps the read end of the pipe
\* open until the head has been waited for, and the head is blocked.
C35_DirectBlocked ==
    /\ api = "waiting" /\ ~ctxDone /\ n = 2
    /\ h[2].cmd.Stdin.kind = "pipe"
    /\ pstate[2] = "exited" /\ early[2]
    /\ pstate[1] = "running" /\ own[1] < OwnLen(1) /\ Len(pipe[1]) = PipeCap
    /\ ~ENABLED Scheduled

\* C36: the worker left behind by a Wait that returned on cancellation does
\* not stay blocked: its process ends, killed for the done context if it was
\* still running, cmd.Wait returns and the worker sends the result, although
\* nobody receives it.
C36_AbandonedWorkerSends ==
    (api = "cancelled" /\ \E k \in Stages : worker[k] = "wait")
        ~> (\A k \in Stages : worker[k] # "wait")

\* Wait returned on cancellation while the worker of the head was waiting;
\* the head was killed and the worker has sent its result.
C36_Witness ==
    /\ api = "cancelled"
    /\ wi = 1
    /\ pstate[1] = "killed"
    /\ worker[1] = "sent"
    /\ errCh[1] # "none"

====
